---- MODULE Spec2Model ----
(***************************************************************************)
(* Model of the OCPP-JSON codec (ocpp_codec): the schema-driven parser     *)
(* (serializer.parse_data / parse_field) and the envelope dispatcher       *)
(* (serializer.parse), the serializer (serializer.serialize_fields /        *)
(* serialize) and the encoders.  The codec is a library of pure functions; *)
(* a state of the model is one call: its arguments, whether it has run,    *)
(* and its outcome (value returned or exception raised).  Each entry point *)
(* has its own specification; the arguments of the other entry points are  *)
(* Unused in it.                                                           *)
(***************************************************************************)
EXTENDS Integers, Sequences, FiniteSets, TLC

VARIABLES raw_data, call_result_action_name, protocol, pc, result,
          dataclass_class, data_arg, message_arg, encoder_arg, value_arg,
          __dataclass_fields__, IMPLEMENTED, calls

vars == <<raw_data, call_result_action_name, protocol, pc, result,
          dataclass_class, data_arg, message_arg, encoder_arg, value_arg,
          __dataclass_fields__, IMPLEMENTED, calls>>

\* The state the calls of one process share: the field descriptors of the
\* dataclasses and the registries of the implemented actions.
shared == <<__dataclass_fields__, IMPLEMENTED>>

\* The value of an argument that the call of a state does not take.
Unused == [t |-> "unused"]

(***************************************************************************)
(* JSON / Python values.  Every value carries its Python type in t.        *)
(* A float is modelled by the integer it is numerically equal to.          *)
(***************************************************************************)
JNull == [t |-> "NoneType"]
JBool(b) == [t |-> "bool", b |-> b]
JInt(i) == [t |-> "int", i |-> i]
JFloat(n) == [t |-> "float", n |-> n]
JStr(s) == [t |-> "str", s |-> s]
JList(l) == [t |-> "list", l |-> l]
JDict(d) == [t |-> "dict", d |-> d]
EmptyDict == JDict(<<>>)

\* isinstance(data, type_): bool is a subclass of int in Python.
IsInstance(v, py) ==
    IF py = "int" THEN v.t \in {"int", "bool"} ELSE v.t = py

\* Truthiness of a value (`not value`).
Falsy(v) ==
    CASE v.t = "NoneType" -> TRUE
      [] v.t = "bool" -> ~v.b
      [] v.t = "int" -> v.i = 0
      [] v.t = "float" -> v.n = 0
      [] v.t = "str" -> v.s = ""
      [] v.t = "list" -> v.l = <<>>
      [] v.t = "dict" -> DOMAIN v.d = {}
      [] OTHER -> FALSE

\* Types for which len() is defined; HasLen is false where len() raises TypeError.
HasLen(v) == v.t \in {"str", "list", "dict"}

PyLen(v) ==
    CASE v.t = "str" -> Len(v.s)
      [] v.t = "list" -> Len(v.l)
      [] v.t = "dict" -> Cardinality(DOMAIN v.d)
      [] OTHER -> 0

(***************************************************************************)
(* Outcomes of the inner functions: a value, a BaseOCPPError, or any other *)
(* Python exception (which no handler of the codec catches).               *)
(***************************************************************************)
Ok(v) == [kind |-> "ok", value |-> v]
OcppError(code, fieldName) == [kind |-> "err", code |-> code, field |-> fieldName]
PyExc(type) == [kind |-> "exc", type |-> type]

NoField == "<none>"

(***************************************************************************)
(* errors.py: the error classes and the ErrorCodeEnum member each resolves *)
(* to (class name, or __error_code_name__ when set).                       *)
(***************************************************************************)
ErrorCodeEnum ==
    {"NotImplemented", "NotSupported", "InternalError", "ProtocolError", "SecurityError",
     "FormationViolation", "PropertyConstraintViolation", "OccurenceConstraintViolation",
     "TypeConstraintViolation", "GenericError", "FormatViolation", "MessageTypeNotSupported",
     "RpcFrameworkError"}

NotImplementedError == OcppError("NotImplemented", NoField)
ProtocolError == OcppError("ProtocolError", NoField)
GenericError == OcppError("GenericError", NoField)
MessageTypeNotSupportedError == OcppError("MessageTypeNotSupported", NoField)
RpcFrameworkError == OcppError("RpcFrameworkError", NoField)
TypeConstraintViolationError(fieldName) == OcppError("TypeConstraintViolation", fieldName)
PropertyConstraintViolationError(fieldName) == OcppError("PropertyConstraintViolation", fieldName)

(***************************************************************************)
(* Schema model: what dataclasses.fields() yields for each dataclass.      *)
(* A field has a name, a type, a default ("MISSING" when the field         *)
(* declares none, "None" for `= None`), its init flag and its metadata     *)
(* mapping (keys as written in the class definitions).                     *)
(***************************************************************************)
Prim(py) == [k |-> "prim", py |-> py]
Simple(cls) == [k |-> "simple", cls |-> cls]
Complex(cls) == [k |-> "complex", cls |-> cls]
ListOf(ty) == [k |-> "list", of |-> ty]

MISSING == "MISSING"
None == "None"

Field(name, type, default, init, metadata) ==
    [name |-> name, type |-> type, default |-> default, init |-> init, metadata |-> metadata]

Required(name, type) == Field(name, type, MISSING, TRUE, <<>>)
Optional(name, type) == Field(name, type, None, TRUE, <<>>)

\* validators.py: validators built with build_simple_validator, and noop.
noop == [f |-> "noop"]
max_length_36 == [f |-> "max_length", n |-> 36]
max_length_50 == [f |-> "max_length", n |-> 50]
max_length_1000 == [f |-> "max_length", n |-> 1000]
max_length_4 == [f |-> "max_length", n |-> 4]
max_length_20 == [f |-> "max_length", n |-> 20]
max_length_128 == [f |-> "max_length", n |-> 128]
max_length_512 == [f |-> "max_length", n |-> 512]
is_identifier == [f |-> "is_identifier"]
decimal_precision_1 == [f |-> "decimal_validator", precision |-> 1]
is_positive == [f |-> "is_positive"]

\* A Python list of validators, as some fields declare their validators.
ValidatorList(vs) == [list |-> vs]

\* encoders.py: encoder instances; module is the module defining their class.
EnumEncoder(enum_class) == [enc |-> "EnumEncoder", module |-> "encoders", enum_class |-> enum_class]
DateTimeEncoder == [enc |-> "DateTimeEncoder", module |-> "encoders"]

\* Enumerations (member values; AutoNameEnum makes the value equal to the name).
MessageTypeEnum == {2, 3, 4}
AvailabilityTypeEnum == {"Inoperative", "Operative"}
AvailabilityStatusEnum == {"Accepted", "Rejected", "Scheduled"}
OperationalStatusEnum == {"Inoperative", "Operative"}
ChangeAvailabilityStatusEnum == {"Accepted", "Rejected", "Scheduled"}
AttributeEnum == {"Actual", "Target", "MinSet", "MaxSet"}
GetVariableStatusEnum ==
    {"Accepted", "Rejected", "UnknownComponent", "UnknownVariable", "NotSupportedAttributeType"}
HashAlgorithmEnum == {"SHA256", "SHA384", "SHA512"}
IdTokenEnum ==
    {"Central", "eMAID", "ISO14443", "KeyCode", "Local", "NoAuthorization", "ISO15693",
     "Description"}

EnumMembers(enum_class) ==
    CASE enum_class = "MessageTypeEnum" -> {JInt(m) : m \in MessageTypeEnum}
      [] enum_class = "ErrorCodeEnum" -> {JStr(m) : m \in ErrorCodeEnum}
      [] enum_class = "AvailabilityTypeEnum" -> {JStr(m) : m \in AvailabilityTypeEnum}
      [] enum_class = "AvailabilityStatusEnum" -> {JStr(m) : m \in AvailabilityStatusEnum}
      [] enum_class = "OperationalStatusEnum" -> {JStr(m) : m \in OperationalStatusEnum}
      [] enum_class = "ChangeAvailabilityStatusEnum" -> {JStr(m) : m \in ChangeAvailabilityStatusEnum}
      [] enum_class = "AttributeEnum" -> {JStr(m) : m \in AttributeEnum}
      [] enum_class = "GetVariableStatusEnum" -> {JStr(m) : m \in GetVariableStatusEnum}
      [] enum_class = "HashAlgorithmEnum" -> {JStr(m) : m \in HashAlgorithmEnum}
      [] enum_class = "IdTokenEnum" -> {JStr(m) : m \in IdTokenEnum}
      [] OTHER -> {}

\* structure.py: the envelope dataclasses.  messageTypeId is inherited from
\* OCPPMessage as an init=False field without default; the subclasses only set
\* a class attribute of that name.
OCPPMessageFields ==
    << Field("messageTypeId", Simple("structure.MessageType"), MISSING, FALSE, <<>>),
       Field("uniqueId", Prim("str"), MISSING, TRUE, [validators |-> max_length_36]) >>

CallFields ==
    OCPPMessageFields \o << Required("action", Prim("str")), Required("payload", Prim("dict")) >>

CallResultFields ==
    OCPPMessageFields \o << Required("payload", Prim("dict")) >>

CallErrorFields ==
    OCPPMessageFields \o
    << Required("errorCode", Simple("structure.ErrorCode")),
       Required("errorDescription", Prim("str")),
       Required("errorDetails", Prim("dict")) >>

\* The class attribute messageTypeId of each envelope class.
ClassMessageTypeId ==
    ("structure.Call" :> 2) @@ ("structure.CallResult" :> 3) @@ ("structure.CallError" :> 4)

\* SimpleType dataclasses: their single `value` field.
SimpleTypeFields ==
    ("structure.MessageType" :>
        << Field("value", Prim("int"), MISSING, TRUE, [encoder |-> EnumEncoder("MessageTypeEnum")]) >>)
    @@ ("structure.ErrorCode" :>
        << Field("value", Prim("str"), MISSING, TRUE, [encoder |-> EnumEncoder("ErrorCodeEnum")]) >>)
    @@ ("v16.PositiveInteger" :>
        << Field("value", Prim("int"), MISSING, TRUE, [validators |-> is_positive]) >>)
    @@ ("v16.AvailabilityType" :>
        << Field("value", Prim("str"), MISSING, TRUE, [encoder |-> EnumEncoder("AvailabilityTypeEnum")]) >>)
    @@ ("v16.AvailabilityStatus" :>
        << Field("value", Prim("str"), MISSING, TRUE, [encoder |-> EnumEncoder("AvailabilityStatusEnum")]) >>)
    @@ ("v16.DateTime" :>
        << Field("value", Prim("str"), MISSING, TRUE, [encoder |-> DateTimeEncoder]) >>)
    @@ ("v20.DateTime" :>
        << Field("value", Prim("str"), MISSING, TRUE, [encoder |-> DateTimeEncoder]) >>)
    @@ ("v20.OperationalStatusEnumType" :>
        << Field("value", Prim("str"), MISSING, TRUE, [encoder |-> EnumEncoder("OperationalStatusEnum")]) >>)
    @@ ("v20.ChangeAvailabilityStatusEnumType" :>
        << Field("value", Prim("str"), MISSING, TRUE,
                 [encoder |-> EnumEncoder("ChangeAvailabilityStatusEnum")]) >>)
    @@ ("v20.AttributeEnumType" :>
        << Field("value", Prim("str"), MISSING, TRUE, [encoder |-> EnumEncoder("AttributeEnum")]) >>)
    @@ ("v20.GetVariableStatusEnumType" :>
        << Field("value", Prim("str"), MISSING, TRUE, [encoder |-> EnumEncoder("GetVariableStatusEnum")]) >>)
    @@ ("v20._String50" :>
        << Field("value", Prim("str"), MISSING, TRUE, [validators |-> ValidatorList(<<max_length_50>>)]) >>)
    @@ ("v20._String1000" :>
        << Field("value", Prim("str"), MISSING, TRUE, [validators |-> ValidatorList(<<max_length_1000>>)]) >>)

\* v20/types.py: the ComplexType dataclasses used by GetVariables.
V20ComplexTypeFields ==
    ("v20.EVSEType" :> << Required("id", Prim("int")), Optional("connectorId", Prim("int")) >>)
    @@ ("v20.ComponentType" :>
        << Required("name", Simple("v20._String50")),
           Optional("instance", Simple("v20._String50")),
           Optional("evse", Complex("v20.EVSEType")) >>)
    @@ ("v20.VariableType" :>
        << Required("name", Simple("v20._String50")), Optional("instance", Simple("v20._String50")) >>)
    @@ ("v20.GetVariableDataType" :>
        << Required("component", Complex("v20.ComponentType")),
           Required("variable", Complex("v20.VariableType")),
           Optional("attributeType", Simple("v20.AttributeEnumType")) >>)
    @@ ("v20.GetVariableResultType" :>
        << Required("attributeStatus", Simple("v20.GetVariableStatusEnumType")),
           Required("component", Complex("v20.ComponentType")),
           Required("variable", Complex("v20.VariableType")),
           Optional("attributeType", Simple("v20.AttributeEnumType")),
           Optional("attributeValue", Simple("v20._String1000")) >>)

\* v16/messages.py: req and conf payload dataclasses of the modelled actions.
V16PayloadFields ==
    ("v16.ChangeAvailability.req" :>
        << Required("connectorId", Simple("v16.PositiveInteger")),
           Required("type", Simple("v16.AvailabilityType")) >>)
    @@ ("v16.ChangeAvailability.conf" :> << Required("status", Simple("v16.AvailabilityStatus")) >>)
    @@ ("v16.GetLocalListVersion.req" :> << >>)
    @@ ("v16.GetLocalListVersion.conf" :> << Required("listVersion", Prim("int")) >>)
    @@ ("v16.Heartbeat.req" :> << >>)
    @@ ("v16.Heartbeat.conf" :> << Required("currentTime", Simple("v16.DateTime")) >>)

\* v20/messages.py: Request and Response payload dataclasses of the modelled actions.
V20PayloadFields ==
    ("v20.ChangeAvailability.Request" :>
        << Required("evseId", Prim("int")),
           Required("operationalStatus", Simple("v20.OperationalStatusEnumType")) >>)
    @@ ("v20.ChangeAvailability.Response" :>
        << Required("status", Simple("v20.ChangeAvailabilityStatusEnumType")) >>)
    @@ ("v20.GetVariables.Request" :>
        << Required("getVariableData", ListOf(Complex("v20.GetVariableDataType"))) >>)
    @@ ("v20.GetVariables.Response" :>
        << Required("getVariableResult", ListOf(Complex("v20.GetVariableResultType"))) >>)
    @@ ("v20.Heartbeat.Request" :> << >>)
    @@ ("v20.Heartbeat.Response" :> << Required("currentTime", Simple("v20.DateTime")) >>)

\* v20/types.py and v20/messages.py: the Request payload of Authorize and the
\* types it uses; v16/types.py: ChargingSchedulePeriod and its Decimal.
AuthorizeSimpleTypeFields ==
    ("v20._IdentifierString36" :>
        << Field("value", Prim("str"), MISSING, TRUE,
                 [validators |-> ValidatorList(<<max_length_36, is_identifier>>)]) >>)
    @@ ("v20._IdentifierString128" :>
        << Field("value", Prim("str"), MISSING, TRUE,
                 [validators |-> ValidatorList(<<max_length_128, is_identifier>>)]) >>)
    @@ ("v20._String20" :>
        << Field("value", Prim("str"), MISSING, TRUE, [validators |-> ValidatorList(<<max_length_20>>)]) >>)
    @@ ("v20._String128" :>
        << Field("value", Prim("str"), MISSING, TRUE, [validators |-> ValidatorList(<<max_length_128>>)]) >>)
    @@ ("v20._String512" :>
        << Field("value", Prim("str"), MISSING, TRUE, [validators |-> ValidatorList(<<max_length_512>>)]) >>)
    @@ ("v20.HashAlgorithmEnumType" :>
        << Field("value", Prim("str"), MISSING, TRUE, [encoder |-> EnumEncoder("HashAlgorithmEnum")]) >>)
    @@ ("v20.IdTokenEnumType" :>
        << Field("value", Prim("str"), MISSING, TRUE, [encoder |-> EnumEncoder("IdTokenEnum")]) >>)
    @@ ("v16.Decimal" :>
        << Field("value", Prim("float"), MISSING, TRUE, [validators |-> decimal_precision_1]) >>)

AuthorizeComplexTypeFields ==
    ("v20.AdditionalInfoType" :>
        << Required("additionalIdToken", Simple("v20._IdentifierString36")),
           Required("type_", Simple("v20._String50")) >>)
    @@ ("v20.IdTokenType" :>
        << Required("idToken", Simple("v20._IdentifierString36")),
           Required("type_", Simple("v20.IdTokenEnumType")),
           Optional("additionalInfo", ListOf(Complex("v20.AdditionalInfoType"))) >>)
    @@ ("v20.OCSPRequestDataType" :>
        << Required("hashAlgorithm", Simple("v20.HashAlgorithmEnumType")),
           Required("issuerNameHash", Simple("v20._IdentifierString128")),
           Required("issuerKeyHash", Simple("v20._String128")),
           Required("serialNumber", Simple("v20._String20")),
           Optional("responderUrl", Simple("v20._String512")) >>)
    @@ ("v16.ChargingSchedulePeriod" :>
        << Required("startPeriod", Prim("int")),
           Required("limit", Simple("v16.Decimal")),
           Optional("numberPhases", Prim("int")) >>)

\* ListCard4Field(default=None): metadata={'validators': [validators.max_length_4]}
AuthorizePayloadFields ==
    ("v20.Authorize.Request" :>
        << Required("idToken", Complex("v20.IdTokenType")),
           Optional("evseId", ListOf(Prim("int"))),
           Field("certificateHashData", ListOf(Complex("v20.OCSPRequestDataType")), None, TRUE,
                 [validators |-> ValidatorList(<<max_length_4>>)]) >>)

EnvelopeFields ==
    ("structure.Call" :> CallFields)
    @@ ("structure.CallResult" :> CallResultFields)
    @@ ("structure.CallError" :> CallErrorFields)

\* The field descriptors the class definitions create at import.
DeclaredFields ==
    EnvelopeFields @@ SimpleTypeFields @@ V20ComplexTypeFields @@ V16PayloadFields
        @@ V20PayloadFields @@ AuthorizeSimpleTypeFields @@ AuthorizeComplexTypeFields
        @@ AuthorizePayloadFields

\* dataclasses.fields(cls): the descriptors the class holds when it is called.
fields(cls) == __dataclass_fields__[cls]

(***************************************************************************)
(* serializer.py: field helpers.                                           *)
(***************************************************************************)
_is_optional(field) == field.default = None

_is_list(type_) == type_.k = "list"

\* typing.List[...] is the only generic alias the schemas use.
_is_generic(type_) == type_.k = "list"

\* dataclasses.is_dataclass(type_): SimpleType and ComplexType subclasses are dataclasses.
is_dataclass(type_) == type_.k \in {"simple", "complex"}

\* issubclass(type_, types.SimpleType), for a non-generic type_.
IsSimpleType(type_) == type_.k = "simple"

\* Variant: only None is undefined.
_is_undefined_none_only(field, value) == value.t = "NoneType"

_is_undefined(field, value) ==
    value.t = "NoneType" \/ (_is_list(field.type) /\ Falsy(value))

required_fields(cls) == SelectSeq(fields(cls), LAMBDA field : ~_is_optional(field))

_unpack_field(field) == [field EXCEPT !.type = field.type.of]

_extract_base_type(field) == [fields(field.type.cls)[1] EXCEPT !.name = field.name]

(***************************************************************************)
(* Validators and encoders, applied to one value.  Native values produced  *)
(* by encoders: enum members and timestamps.                               *)
(***************************************************************************)
EnumMember(enum_class, v) == [t |-> "enum", enum_class |-> enum_class, v |-> v]
DateTimeValue(ts, tz) == [t |-> "datetime", ts |-> ts, tz |-> tz]

\* What dateutil.parser.isoparse makes of the wire strings of the model:
\* local time and offset; any other string is malformed.
IsoStrings ==
    ("2019-03-21T12:00:00" :> DateTimeValue("2019-03-21T12:00:00", "naive"))
    @@ ("2019-03-21T12:00:00Z" :> DateTimeValue("2019-03-21T12:00:00", "UTC"))
    @@ ("2019-03-21T12:00:00+00:00" :> DateTimeValue("2019-03-21T12:00:00", "UTC"))
    @@ ("2019-03-21T12:00:00+01:00" :> DateTimeValue("2019-03-21T12:00:00", "+01:00"))
    @@ ("2019-03-21T12:00:00-05:00" :> DateTimeValue("2019-03-21T12:00:00", "-05:00"))
    @@ ("2019-01-30T12:30Z" :> DateTimeValue("2019-01-30T12:30:00", "UTC"))
    @@ ("2019-01-30T12:30:00+00:00" :> DateTimeValue("2019-01-30T12:30:00", "UTC"))

NumericValue(v) ==
    CASE v.t = "int" -> v.i
      [] v.t = "float" -> v.n
      [] v.t = "bool" -> IF v.b THEN 1 ELSE 0
      [] OTHER -> 0

max_length(length, value) ==
    IF PyLen(value) > length THEN PropertyConstraintViolationError(NoField) ELSE Ok(value)

is_positive_validator(value) ==
    IF NumericValue(value) < 0 THEN PropertyConstraintViolationError(NoField) ELSE Ok(value)

\* The characters _IDENTIFIER_REGEXP admits.
IdentifierChars ==
    {"a", "b", "c", "d", "e", "f", "g", "h", "i", "j", "k", "l", "m", "n", "o", "p", "q", "r",
     "s", "t", "u", "v", "w", "x", "y", "z", "A", "B", "C", "D", "E", "F", "G", "H", "I", "J",
     "K", "L", "M", "N", "O", "P", "Q", "R", "S", "T", "U", "V", "W", "X", "Y", "Z", "0", "1",
     "2", "3", "4", "5", "6", "7", "8", "9", "*", "_", "=", ":", "+", "|", "@", ".", "-"}

\* _IDENTIFIER_REGEXP.fullmatch(value); a value that is no string is a TypeError.
is_identifier_validator(value) ==
    IF value.t # "str" THEN PyExc("TypeError")
    ELSE IF \E i \in 1..Len(value.s) : SubSeq(value.s, i, i) \notin IdentifierChars
    THEN PropertyConstraintViolationError(NoField)
    ELSE Ok(value)

RECURSIVE DigitCount(_)
\* len(str(n)) for a natural number n.
DigitCount(n) == IF n < 10 THEN 1 ELSE 1 + DigitCount(n \div 10)

RECURSIVE StrippedLen(_, _)
\* Length of the w-digit fraction f once its trailing zeros are dropped, at least 1.
StrippedLen(f, w) == IF w = 1 \/ f % 10 # 0 THEN w ELSE StrippedLen(f \div 10, w - 1)

\* len(str(value).split('.')[-1]) for the numbers of the model: all of
\* str(value) for an integer, the fractional digits for a float.
LastComponentLen(value) ==
    CASE value.t = "int" -> DigitCount(IF value.i < 0 THEN 0 - value.i ELSE value.i)
                            + (IF value.i < 0 THEN 1 ELSE 0)
      [] value.t = "float" /\ "nano" \in DOMAIN value ->
            StrippedLen((IF value.nano < 0 THEN 0 - value.nano ELSE value.nano) % 1000000000, 9)
      [] value.t = "float" -> 1
      [] value.t = "str" -> PyLen(value)
      [] value.t = "bool" -> IF value.b THEN 4 ELSE 5
      [] OTHER -> 4

decimal_validator(precision, value) ==
    IF LastComponentLen(value) > precision
    THEN PropertyConstraintViolationError(NoField)
    ELSE Ok(value)

EnumEncoder_from_json(enum_class, json_value) ==
    IF json_value.t = "enum"
    THEN IF json_value.enum_class = enum_class
         THEN Ok(json_value)
         ELSE PropertyConstraintViolationError(NoField)
    ELSE
    IF \E m \in EnumMembers(enum_class) :
          \/ m = json_value
          \/ m.t = "int" /\ json_value.t = "float" /\ m.i = json_value.n
    THEN Ok(EnumMember(enum_class,
                       CHOOSE m \in EnumMembers(enum_class) :
                          \/ m = json_value
                          \/ m.t = "int" /\ json_value.t = "float" /\ m.i = json_value.n))
    ELSE PropertyConstraintViolationError(NoField)

\* Variant: a member of any enumeration is accepted.
EnumEncoder_to_json_any_enum(enum_class, value) ==
    IF value.t = "enum" THEN Ok(value.v) ELSE TypeConstraintViolationError(NoField)

EnumEncoder_to_json(enum_class, value) ==
    IF value.t = "enum" /\ value.enum_class = enum_class
    THEN Ok(value.v)
    ELSE TypeConstraintViolationError(NoField)

\* Variant: a timestamp without offset is returned naive.
DateTimeEncoder_from_json_keep_naive(json_value) ==
    IF json_value.t # "str" THEN PyExc("TypeError")
    ELSE IF json_value.s \notin DOMAIN IsoStrings THEN PropertyConstraintViolationError(NoField)
    ELSE IF IsoStrings[json_value.s].tz \notin {"naive", "UTC"}
    THEN PropertyConstraintViolationError(NoField)
    ELSE Ok(IsoStrings[json_value.s])

DateTimeEncoder_from_json(json_value) ==
    IF json_value.t # "str" THEN PyExc("TypeError")
    ELSE IF json_value.s \notin DOMAIN IsoStrings THEN PropertyConstraintViolationError(NoField)
    ELSE LET dt == IsoStrings[json_value.s]
             utc == IF dt.tz = "naive" THEN DateTimeValue(dt.ts, "UTC") ELSE dt
         IN IF utc.tz # "UTC" THEN PropertyConstraintViolationError(NoField) ELSE Ok(utc)

DateTimeEncoder_to_json(value) ==
    IF value.t # "datetime" THEN TypeConstraintViolationError(NoField)
    ELSE IF value.tz # "UTC" THEN PropertyConstraintViolationError(NoField)
    ELSE Ok(JStr(value.ts \o "+00:00"))

(***************************************************************************)
(* encoders.py: OutgoingMessageDecimalEncoder.  A float with a fractional  *)
(* part is identified by the decimal its repr prints, held in units of     *)
(* 10^-9; a float too large for a quantize to six places is HugeFloat.     *)
(***************************************************************************)
OutgoingMessageDecimalEncoder == [enc |-> "OutgoingMessageDecimalEncoder", module |-> "encoders"]

PyFloat(nano) == [t |-> "float", nano |-> nano]
HugeFloat == [t |-> "float", huge |-> TRUE]

\* decimal.Decimal(float_value): the exact value of the binary float, in units
\* of 10^-9 rounded toward zero, for the floats of the model.
FloatExpansion ==
    (0 :> 0)
    @@ (100000000 :> 100000000)
    @@ (300000000 :> 299999999)
    @@ (500000000 :> 500000000)
    @@ (700000000 :> 699999999)
    @@ (1000000000 :> 1000000000)
    @@ (1120000000 :> 1120000000)
    @@ (1123456000 :> 1123456000)
    @@ (1123456789 :> 1123456789)
    @@ (1000001000 :> 1000000999)
    @@ (10000 :> 10000)
    @@ (1000 :> 999)
    @@ (-300000000 :> -299999999)
    @@ (-1123456700 :> -1123456699)
    @@ (-1500000000 :> -1500000000)
    @@ (299999000 :> 299999000)
    @@ (699999000 :> 699999000)

\* float(value) for the numeric strings of the model.
NumericStrings ==
    ("1.12" :> PyFloat(1120000000))
    @@ ("1.123456789" :> PyFloat(1123456789))
    @@ ("0.3" :> PyFloat(300000000))
    @@ ("0.00001" :> PyFloat(10000))
    @@ ("1e-05" :> PyFloat(10000))
    @@ ("112345599999999994030193027055616.1234567890" :> HugeFloat)

\* float(value): ValueError for a string that is no number, TypeError for a
\* value that is neither a number nor a string.
PyFloatOf(value) ==
    CASE value.t = "float" -> Ok(value)
      [] value.t = "int" -> Ok(PyFloat(value.i * 1000000000))
      [] value.t = "bool" -> Ok(PyFloat(IF value.b THEN 1000000000 ELSE 0))
      [] value.t = "str" ->
            IF value.s \in DOMAIN NumericStrings
            THEN Ok(NumericStrings[value.s])
            ELSE PyExc("ValueError")
      [] OTHER -> PyExc("TypeError")

\* Integer division rounding toward zero.
TruncDiv(a, b) == IF a >= 0 THEN a \div b ELSE 0 - ((0 - a) \div b)

\* float(decimal.Decimal(float_value).quantize(six_places, rounding=ROUND_DOWN));
\* quantize raises a DecimalException when the result needs too many digits.
Quantize(float_value) ==
    IF "huge" \in DOMAIN float_value
    THEN TypeConstraintViolationError(NoField)
    ELSE Ok(PyFloat(TruncDiv(FloatExpansion[float_value.nano], 1000) * 1000))

\* What to_json does with the outcome of float(value): only ValueError is caught.
QuantizeOutcome(float_value) ==
    CASE float_value.kind = "ok" -> Quantize(float_value.value)
      [] float_value.kind = "exc" /\ float_value.type = "ValueError" ->
            TypeConstraintViolationError(NoField)
      [] OTHER -> float_value

OutgoingMessageDecimalEncoder_from_json(json_value) == Ok(json_value)

OutgoingMessageDecimalEncoder_to_json(value) == QuantizeOutcome(PyFloatOf(value))

\* encoder.from_json(json_value)
from_json(encoder, json_value) ==
    CASE encoder.enc = "DateTimeEncoder" -> DateTimeEncoder_from_json(json_value)
      [] encoder.enc = "EnumEncoder" -> EnumEncoder_from_json(encoder.enum_class, json_value)
      [] OTHER -> OutgoingMessageDecimalEncoder_from_json(json_value)

\* encoder.to_json(value)
to_json(encoder, value) ==
    CASE encoder.enc = "DateTimeEncoder" -> DateTimeEncoder_to_json(value)
      [] encoder.enc = "EnumEncoder" -> EnumEncoder_to_json(encoder.enum_class, value)
      [] OTHER -> OutgoingMessageDecimalEncoder_to_json(value)

\* _run_validator's use of the object fetched from the metadata: an instance
\* of validators.BaseEncoder is replaced by its from_json or to_json method,
\* anything else is called as it is (a list, or an encoder whose class is not
\* validators.BaseEncoder, is not callable).
CallValidator(validator, data, parsing) ==
    IF "list" \in DOMAIN validator THEN PyExc("TypeError")
    ELSE IF "enc" \in DOMAIN validator
    THEN IF validator.module # "validators" THEN PyExc("TypeError")
         ELSE IF validator.enc = "EnumEncoder"
         THEN IF parsing THEN EnumEncoder_from_json(validator.enum_class, data)
              ELSE EnumEncoder_to_json(validator.enum_class, data)
         ELSE IF parsing THEN DateTimeEncoder_from_json(data) ELSE DateTimeEncoder_to_json(data)
    ELSE CASE validator.f = "noop" -> Ok(data)
           [] validator.f = "max_length" -> max_length(validator.n, data)
           [] validator.f = "is_positive" -> is_positive_validator(data)
           [] validator.f = "is_identifier" -> is_identifier_validator(data)
           [] validator.f = "decimal_validator" -> decimal_validator(validator.precision, data)
           [] OTHER -> Ok(data)

\* The metadata key under which _run_validator looks the validator up.
ValidatorMetadataKey == "validator"

\* exc.details.setdefault('field', field.name) on a BaseOCPPError, then re-raise.
InjectFieldName(r, name) ==
    IF r.kind = "err" /\ r.field = NoField THEN [r EXCEPT !.field = name] ELSE r

\* field.metadata.get('validator', validators.noop)
FetchValidator(metadata) ==
    IF ValidatorMetadataKey \in DOMAIN metadata THEN metadata[ValidatorMetadataKey] ELSE noop

_run_validator(field, data, parsing) ==
    InjectFieldName(CallValidator(FetchValidator(field.metadata), data, parsing), field.name)

(***************************************************************************)
(* serializer.py: parsing.                                                 *)
(***************************************************************************)
parse_field(field, data) ==
    IF ~IsInstance(data, field.type.py)
    THEN TypeConstraintViolationError(field.name)
    ELSE _run_validator(field, data, TRUE)

\* Names of the fields the generated __init__ accepts, and of those it requires.
InitNames(fs) == {fs[i].name : i \in {j \in DOMAIN fs : fs[j].init}}
InitRequiredNames(fs) == {fs[i].name : i \in {j \in DOMAIN fs : fs[j].init /\ fs[j].default = MISSING}}

\* dataclass_class(**validated_data): the generated __init__ takes the init
\* fields only; an unexpected keyword or a missing required one is a TypeError.
Construct(cls, validated_data) ==
    IF \/ ~(DOMAIN validated_data \subseteq InitNames(fields(cls)))
       \/ ~(InitRequiredNames(fields(cls)) \subseteq DOMAIN validated_data)
    THEN PyExc("TypeError")
    ELSE Ok([t |-> "dataclass", cls |-> cls,
             attrs |-> [n \in InitNames(fields(cls)) |->
                          IF n \in DOMAIN validated_data THEN validated_data[n] ELSE JNull]])

\* Sequencing of two steps: an exception raised by the first step propagates,
\* otherwise the next step runs on its value.
Then(r, next(_)) == IF r.kind # "ok" THEN r ELSE next(r.value)

RECURSIVE parse_data(_, _)
RECURSIVE ParseFieldsFrom(_, _, _, _)
RECURSIVE ParseElements(_, _, _, _)

\* parse_func(element): parse_data for dataclass elements, parse_field otherwise.
ParseElement(field, element) ==
    IF is_dataclass(field.type)
    THEN parse_data(field.type.cls, element)
    ELSE parse_field(field, element)

\* [parse_func(element) for element in data_item]
ParseElements(field, elements, i, acc) ==
    IF i > Len(elements) THEN Ok(JList(acc))
    ELSE Then(ParseElement(field, elements[i]),
              LAMBDA v : ParseElements(field, elements, i + 1, Append(acc, v)))

\* The field the loop body works on: a SimpleType field is replaced by its base field.
EffectiveField(declared) ==
    IF ~_is_generic(declared.type) /\ IsSimpleType(declared.type)
    THEN _extract_base_type(declared)
    ELSE declared

\* The three branches of the loop body: nested dataclass, list, simple value.
ParseFieldValue(field, data_item) ==
    IF is_dataclass(field.type)
    THEN parse_data(field.type.cls, data_item)
    ELSE IF _is_list(field.type)
    THEN IF data_item.t # "list"
         THEN TypeConstraintViolationError(NoField)
         ELSE Then(_run_validator(field, data_item, TRUE),
                   LAMBDA v : ParseElements(_unpack_field(field), v.l, 1, <<>>))
    ELSE parse_field(field, data_item)

\* if _is_optional(field) and (field.name not in data or _is_undefined(...)): continue
IsSkipped(declared, data) ==
    /\ _is_optional(declared)
    /\ \/ declared.name \notin DOMAIN data.d
       \/ _is_undefined(declared, data.d[declared.name])

\* Variant: the fields declared after this one are examined before it.
ParseDeclaredField_rest_first(cls, data, i, validated_data, declared) ==
    IF IsSkipped(declared, data)
    THEN ParseFieldsFrom(cls, data, i + 1, validated_data)
    ELSE Then(ParseFieldsFrom(cls, data, i + 1, validated_data),
              LAMBDA rest : Then(ParseFieldValue(EffectiveField(declared), data.d[declared.name]),
                                 LAMBDA v : Ok(rest @@ (declared.name :> v))))

\* One iteration of the loop over dataclass_fields, then the rest of the loop.
ParseDeclaredField(cls, data, i, validated_data, declared) ==
    IF IsSkipped(declared, data)
    THEN ParseFieldsFrom(cls, data, i + 1, validated_data)
    ELSE Then(ParseFieldValue(EffectiveField(declared), data.d[declared.name]),
              LAMBDA v : ParseFieldsFrom(cls, data, i + 1,
                                         validated_data @@ (declared.name :> v)))

\* The loop over dataclass_fields, from the i-th field on.
ParseFieldsFrom(cls, data, i, validated_data) ==
    IF i > Len(fields(cls)) THEN Ok(validated_data)
    ELSE ParseDeclaredField(cls, data, i, validated_data, fields(cls)[i])

\* Variant: only the presence of the required fields is checked.
MissingOrUndefined_presence_only(req_fields, data) ==
    ~({req_fields[i].name : i \in DOMAIN req_fields} \subseteq DOMAIN data.d)

\* Some required field is not among the keys of data, or is undefined.
MissingOrUndefined(req_fields, data) ==
    \/ ~({req_fields[i].name : i \in DOMAIN req_fields} \subseteq DOMAIN data.d)
    \/ \E i \in DOMAIN req_fields : _is_undefined(req_fields[i], data.d[req_fields[i].name])

\* Variant: a key that names no field of the dataclass counts as one too many.
TooManyArguments_unknown_key(dataclass_fields, data) ==
    \/ PyLen(data) > Len(dataclass_fields)
    \/ data.t = "dict"
          /\ ~(DOMAIN data.d \subseteq {dataclass_fields[i].name : i \in DOMAIN dataclass_fields})

\* Variant: the number of keys is not checked.
TooManyArguments_unchecked(dataclass_fields, data) == FALSE

\* len(data) > len(dataclass_fields)
TooManyArguments(dataclass_fields, data) == PyLen(data) > Len(dataclass_fields)

parse_data(cls, data) ==
    IF ~HasLen(data) THEN PyExc("TypeError")
    ELSE IF TooManyArguments(fields(cls), data)
    THEN IF data.t # "dict" THEN PyExc("AttributeError") ELSE ProtocolError
    ELSE IF data.t # "dict" THEN PyExc("AttributeError")
    ELSE IF MissingOrUndefined(required_fields(cls), data) THEN ProtocolError
    ELSE Then(ParseFieldsFrom(cls, data, 1, <<>>),
              LAMBDA validated_data : Construct(cls, validated_data))

(***************************************************************************)
(* serializer.py: serializing.  A native record is what Construct builds;  *)
(* an attribute that is no init field is the class attribute of the        *)
(* envelope class (messageTypeId, a MessageTypeEnum member).               *)
(***************************************************************************)
\* getattr(message, field.name)
GetAttr(message, name) ==
    IF name \in DOMAIN message.attrs
    THEN message.attrs[name]
    ELSE EnumMember("MessageTypeEnum", JInt(ClassMessageTypeId[message.cls]))

\* isinstance(validated_data, field.type)
IsInstanceOfType(v, type_) ==
    IF type_.k = "prim" THEN IsInstance(v, type_.py)
    ELSE v.t = "dataclass" /\ v.cls = type_.cls

\* if issubclass(field.type, types.SimpleType): field = _extract_base_type(field)
SerializedBaseField(field) ==
    IF IsSimpleType(field.type) THEN _extract_base_type(field) ELSE field

\* The type check that follows the validator.
CheckSerializedType(field, validated_data) ==
    IF validated_data.kind # "ok" THEN validated_data
    ELSE IF ~IsInstanceOfType(validated_data.value, field.type)
    THEN TypeConstraintViolationError(field.name)
    ELSE validated_data

\* issubclass raises TypeError for a generic alias.
serialize_field(field, data) ==
    IF _is_generic(field.type) THEN PyExc("TypeError")
    ELSE CheckSerializedType(SerializedBaseField(field),
                             _run_validator(SerializedBaseField(field), data, FALSE))

RECURSIVE serialize_fields(_)
RECURSIVE SerializeFieldsFrom(_, _, _)
RECURSIVE SerializeElements(_, _, _, _)

\* serialize_func(element): serialize_fields for ComplexType elements; for any
\* other element type serialize_field is called with the element alone, its
\* `data` argument missing.
SerializeElement(field, element) ==
    IF field.type.k = "complex" THEN serialize_fields(element) ELSE PyExc("TypeError")

\* [serialize_func(element) for element in field_value]; a value that is not
\* a list is either not iterable or yields strings no serialize_func takes.
SerializeElements(field, field_value, i, acc) ==
    IF field_value.t # "list" THEN PyExc("TypeError")
    ELSE IF i > Len(field_value.l) THEN Ok(JList(acc))
    ELSE Then(SerializeElement(field, field_value.l[i]),
              LAMBDA v : SerializeElements(field, field_value, i + 1, Append(acc, v)))

\* The three branches of the loop body: list, nested ComplexType, simple value.
SerializeFieldValue(field, field_value) ==
    IF _is_list(field.type)
    THEN Then(_run_validator(field, field_value, FALSE),
              LAMBDA v : SerializeElements(_unpack_field(field), v, 1, <<>>))
    ELSE IF field.type.k = "complex" THEN serialize_fields(field_value)
    ELSE serialize_field(field, field_value)

\* Variant: an undefined optional field is emitted as null.
SerializeDeclaredField_emit_null(message, i, serialized_dict, field, field_value) ==
    IF _is_undefined(field, field_value) /\ ~_is_optional(field)
    THEN ProtocolError
    ELSE IF _is_undefined(field, field_value)
    THEN SerializeFieldsFrom(message, i + 1, serialized_dict @@ (field.name :> JNull))
    ELSE Then(SerializeFieldValue(field, field_value),
              LAMBDA v : SerializeFieldsFrom(message, i + 1,
                                             serialized_dict @@ (field.name :> v)))

\* One iteration of the loop over fields(message), then the rest of the loop.
SerializeDeclaredField(message, i, serialized_dict, field, field_value) ==
    IF _is_undefined(field, field_value)
    THEN IF _is_optional(field)
         THEN SerializeFieldsFrom(message, i + 1, serialized_dict)
         ELSE ProtocolError
    ELSE Then(SerializeFieldValue(field, field_value),
              LAMBDA v : SerializeFieldsFrom(message, i + 1,
                                             serialized_dict @@ (field.name :> v)))

\* The loop over fields(message), from the i-th field on.
SerializeFieldsFrom(message, i, serialized_dict) ==
    IF i > Len(fields(message.cls)) THEN Ok(serialized_dict)
    ELSE SerializeDeclaredField(message, i, serialized_dict, fields(message.cls)[i],
                                GetAttr(message, fields(message.cls)[i].name))

\* fields(message) raises TypeError when message is no dataclass instance.
serialize_fields(message) ==
    IF message.t # "dataclass" THEN PyExc("TypeError")
    ELSE Then(SerializeFieldsFrom(message, 1, <<>>), LAMBDA d : Ok(JDict(d)))

RECURSIVE SerializeEnvelopeFrom(_, _, _)
\* [serialize_field(field, getattr(message, field.name))
\*  for field in fields(message) if field.name != 'payload']
SerializeEnvelopeFrom(message, i, ocpp_msg) ==
    IF i > Len(fields(message.cls)) THEN Ok(ocpp_msg)
    ELSE IF fields(message.cls)[i].name = "payload"
    THEN SerializeEnvelopeFrom(message, i + 1, ocpp_msg)
    ELSE Then(serialize_field(fields(message.cls)[i],
                              GetAttr(message, fields(message.cls)[i].name)),
              LAMBDA v : SerializeEnvelopeFrom(message, i + 1, Append(ocpp_msg, v)))

\* if hasattr(message, 'payload'): ocpp_msg.append(serialize_fields(message.payload))
AppendPayload(message, ocpp_msg) ==
    IF "payload" \notin DOMAIN message.attrs THEN Ok(JList(ocpp_msg))
    ELSE Then(serialize_fields(message.attrs["payload"]),
              LAMBDA payload : Ok(JList(Append(ocpp_msg, payload))))

serialize(message) ==
    IF message.t # "dataclass" THEN PyExc("TypeError")
    ELSE Then(SerializeEnvelopeFrom(message, 1, <<>>),
              LAMBDA ocpp_msg : AppendPayload(message, ocpp_msg))

(***************************************************************************)
(* compat.py: protocol versions, action registries, version-dependent      *)
(* errors and payload dataclass selection.                                 *)
(***************************************************************************)
OcppJsonProtocol == {"v16", "v20"}

\* v16/messages.py IMPLEMENTED (the modelled actions): action name -> Action class.
IMPLEMENTED_V16 ==
    ("ChangeAvailability" :> "v16.ChangeAvailability")
    @@ ("GetLocalListVersion" :> "v16.GetLocalListVersion")
    @@ ("Heartbeat" :> "v16.Heartbeat")

\* v20/messages.py IMPLEMENTED (the modelled actions).
IMPLEMENTED_V20 ==
    ("ChangeAvailability" :> "v20.ChangeAvailability")
    @@ ("GetVariables" :> "v20.GetVariables")
    @@ ("Heartbeat" :> "v20.Heartbeat")

\* The registries the modules v16/messages.py and v20/messages.py create at import.
ImplementedAtImport == [v16 |-> IMPLEMENTED_V16, v20 |-> IMPLEMENTED_V20]

get_implemented_messages(p) == IF p = "v16" THEN IMPLEMENTED.v16 ELSE IMPLEMENTED.v20

\* Variant: the protocol version is not consulted.
get_rpc_framework_error_unversioned(p) == GenericError

get_rpc_framework_error(p) == IF p = "v20" THEN RpcFrameworkError ELSE GenericError

get_message_type_not_supported_error(p) ==
    IF p = "v20" THEN MessageTypeNotSupportedError ELSE GenericError

\* issubclass(action, messages_v20.Action)
IsV20Action(action) == \E name \in DOMAIN IMPLEMENTED_V20 : IMPLEMENTED_V20[name] = action

get_request_payload_dataclass(action) ==
    IF IsV20Action(action) THEN action \o ".Request" ELSE action \o ".req"

get_response_payload_dataclass(action) ==
    IF IsV20Action(action) THEN action \o ".Response" ELSE action \o ".conf"

(***************************************************************************)
(* serializer.py: parse, the envelope dispatcher.                          *)
(***************************************************************************)
\* Outcomes of parse: the message returned, an OCPPException (wrapped error
\* and related request id), or another exception leaving parse.  raised_at
\* names the step of parse that raised.
Returned(msg) == [kind |-> "return", msg |-> msg]
OCPPException(ocpp_error, related_request_id, raised_at) ==
    [kind |-> "OCPPException", ocpp_error |-> ocpp_error,
     related_request_id |-> related_request_id, raised_at |-> raised_at]
Raised(type, raised_at) == [kind |-> "raise", type |-> type, raised_at |-> raised_at]

_MSGTYPEID_TO_DATACLASS ==
    (2 :> "structure.Call") @@ (3 :> "structure.CallResult") @@ (4 :> "structure.CallError")

_DEFAULT_CALLERROR_UNIQUEID == "-1"

\* hash(msg_type_id) is defined: lists and dicts are unhashable.
IsHashable(v) == v.t \notin {"list", "dict"}

\* msg_type_id in _MSGTYPEID_TO_DATACLASS: a key that hashes and compares equal
\* (2.0 == 2; True == 1 is no key).
InMsgTypeTable(v) ==
    v.t \in {"int", "float"} /\ NumericValue(v) \in DOMAIN _MSGTYPEID_TO_DATACLASS

Min(a, b) == IF a < b THEN a ELSE b

\* {field.name: value for field, value in zip(fields(msgtype_dataclass), raw_data)}
ZipFields(dataclass_fields, raw_list) ==
    JDict([name \in {dataclass_fields[i].name :
                        i \in 1..Min(Len(dataclass_fields), Len(raw_list))} |->
             raw_list[CHOOSE i \in DOMAIN dataclass_fields : dataclass_fields[i].name = name]])

\* Variant: a null payload is left as it is.
NormalizePayload_keep_null(ocpp_dict) == ocpp_dict

\* if 'payload' in ocpp_dict and ocpp_dict['payload'] is None: ocpp_dict['payload'] = {}
NormalizePayload(ocpp_dict) ==
    IF "payload" \in DOMAIN ocpp_dict.d /\ ocpp_dict.d["payload"].t = "NoneType"
    THEN JDict([ocpp_dict.d EXCEPT !["payload"] = EmptyDict])
    ELSE ocpp_dict

\* Variant: an error of the structural parse is bound to the uniqueId element
\* whenever that element is a string.
StructureErrorRequestId_real_id(ocpp_dict) ==
    IF "uniqueId" \in DOMAIN ocpp_dict.d /\ ocpp_dict.d["uniqueId"].t = "str"
    THEN ocpp_dict.d["uniqueId"].s
    ELSE _DEFAULT_CALLERROR_UNIQUEID

\* The request id an error of the structural parse is bound to.
StructureErrorRequestId(ocpp_dict) == _DEFAULT_CALLERROR_UNIQUEID

\* ocpp_msg.payload = parse_data(payload_dataclass, ocpp_msg.payload), an error
\* being wrapped with the message's uniqueId.
WithParsedPayload(ocpp_msg, payload) ==
    CASE payload.kind = "ok" -> Returned([ocpp_msg EXCEPT !.attrs["payload"] = payload.value])
      [] payload.kind = "err" -> OCPPException(payload, ocpp_msg.attrs["uniqueId"].s, "payload")
      [] OTHER -> Raised(payload.type, "payload")

\* The payload dataclass of an action: its request for a Call, else its response.
PayloadDataclass(action_dataclass, is_call) ==
    IF is_call
    THEN get_request_payload_dataclass(action_dataclass)
    ELSE get_response_payload_dataclass(action_dataclass)

\* Lookup of the action and parse of the payload against its dataclass.
ResolveAction(ocpp_msg, action_name, is_call, implemented_messages) ==
    IF action_name.s \notin DOMAIN implemented_messages
    THEN OCPPException(NotImplementedError, ocpp_msg.attrs["uniqueId"].s, "action")
    ELSE WithParsedPayload(
             ocpp_msg,
             parse_data(PayloadDataclass(implemented_messages[action_name.s], is_call),
                        ocpp_msg.attrs["payload"]))

\* The second half of parse: payload resolution for an envelope record whose
\* class has the given message type id.
ParsePayload(ocpp_msg, messageTypeId, name, p) ==
    IF messageTypeId \notin {2, 3} THEN Returned(ocpp_msg)
    ELSE IF messageTypeId = 3 /\ Falsy(name) THEN Raised("ValueError", "usage")
    ELSE ResolveAction(ocpp_msg,
                       IF messageTypeId = 2 THEN ocpp_msg.attrs["action"] ELSE name,
                       messageTypeId = 2,
                       get_implemented_messages(p))

\* The dictionary the structural parse works on.
EnvelopeDict(msgtype_dataclass, raw_list) ==
    NormalizePayload(ZipFields(fields(msgtype_dataclass), raw_list))

\* The first half of parse for a list whose first element is a known message
\* type id: the envelope record, or the error of its structural parse.
StructuralParse(raw_list) ==
    parse_data(_MSGTYPEID_TO_DATACLASS[NumericValue(raw_list[1])],
               EnvelopeDict(_MSGTYPEID_TO_DATACLASS[NumericValue(raw_list[1])], raw_list))

\* What parse does with the outcome of the structural parse.
AfterStructuralParse(ocpp_msg, raw_list, name, p) ==
    CASE ocpp_msg.kind = "err" ->
            OCPPException(
                ocpp_msg,
                StructureErrorRequestId(
                    EnvelopeDict(_MSGTYPEID_TO_DATACLASS[NumericValue(raw_list[1])], raw_list)),
                "structure")
      [] ocpp_msg.kind = "exc" -> Raised(ocpp_msg.type, "structure")
      [] OTHER -> ParsePayload(ocpp_msg.value, ClassMessageTypeId[ocpp_msg.value.cls], name, p)

parse(raw, name, p) ==
    IF raw.t # "list" \/ Falsy(raw)
    THEN OCPPException(get_rpc_framework_error(p), _DEFAULT_CALLERROR_UNIQUEID, "entry")
    ELSE IF ~IsHashable(raw.l[1]) THEN Raised("TypeError", "msgtype")
    ELSE IF ~InMsgTypeTable(raw.l[1])
    THEN OCPPException(get_message_type_not_supported_error(p),
                       _DEFAULT_CALLERROR_UNIQUEID, "msgtype")
    ELSE AfterStructuralParse(StructuralParse(raw.l), raw.l, name, p)

(***************************************************************************)
(* exceptions.py: the CallError an OCPPException carries.  The model keeps *)
(* of an error its code and the `field` entry of its details; ErrorMsg     *)
(* stands for the message text of the error.                               *)
(***************************************************************************)
ErrorMsg(ocpp_error) == "message of " \o ocpp_error.code

\* ocpp_error.details: the keyword arguments of the error.
ErrorDetails(ocpp_error) ==
    IF ocpp_error.field = NoField THEN <<>> ELSE [field |-> JStr(ocpp_error.field)]

\* CallError(uniqueId=related_request_id, errorCode=ocpp_error.code,
\*           errorDescription=ocpp_error.msg, errorDetails=ocpp_error.details)
as_call_error(exc) ==
    [t |-> "dataclass", cls |-> "structure.CallError",
     attrs |-> [uniqueId |-> JStr(exc.related_request_id),
                errorCode |-> EnumMember("ErrorCodeEnum", JStr(exc.ocpp_error.code)),
                errorDescription |-> JStr(ErrorMsg(exc.ocpp_error)),
                errorDetails |-> JDict(ErrorDetails(exc.ocpp_error))]]

(***************************************************************************)
(* The inputs of the model.                                                *)
(***************************************************************************)
MaxRawLen == 6

LongUniqueId == "1234567890123456789012345678901234567"

DontCare == JDict([dont |-> JStr("care")])

\* Values tried at each position of the raw list.
Pool(i) ==
    CASE i = 1 -> {JInt(2), JInt(3), JInt(4), JInt(666), JFloat(2), JBool(TRUE), JStr("2"), JNull,
                   JList(<<JInt(2)>>)}
      [] i = 2 -> {JStr("19223201"), JStr(LongUniqueId), JInt(666)}
      [] i = 3 -> {JStr("Heartbeat"), JStr("UnknownAction"), JStr("GenericError"), EmptyDict, JNull,
                   DontCare, JDict([listVersion |-> JInt(1)])}
      [] i = 4 -> {EmptyDict, JNull, JStr("stop_this_folly"),
                   JDict([getVariableData |-> JList(<<JInt(5)>>)])}
      [] i = 5 -> {EmptyDict, JStr("extra")}
      [] OTHER -> {JStr("argument")}

RECURSIVE ListsOfLen(_)
ListsOfLen(n) ==
    IF n = 0 THEN {<<>>}
    ELSE {Append(l, v) : l \in ListsOfLen(n - 1), v \in Pool(n)}

RawInputs ==
    {JList(l) : l \in UNION {ListsOfLen(n) : n \in 0..MaxRawLen}}
    \cup {JDict([that_is_not |-> JStr("ocpp-json")]), JStr("[2]"), JInt(2), JNull}

ActionNames == {JNull, JStr(""), JStr("Heartbeat"), JStr("GetLocalListVersion")}

NoResult == [kind |-> "none"]

(***************************************************************************)
(* The state machine: one call of parse.                                   *)
(***************************************************************************)
\* The shared state once the modules are imported.
InitShared ==
    /\ __dataclass_fields__ = DeclaredFields
    /\ IMPLEMENTED = ImplementedAtImport

Init ==
    /\ InitShared
    /\ calls = Unused
    /\ raw_data \in RawInputs
    /\ call_result_action_name \in ActionNames
    /\ protocol \in OcppJsonProtocol
    /\ pc = "call"
    /\ result = NoResult
    /\ dataclass_class = Unused /\ data_arg = Unused /\ message_arg = Unused
    /\ encoder_arg = Unused /\ value_arg = Unused

Parse ==
    /\ pc = "call"
    /\ result' = parse(raw_data, call_result_action_name, protocol)
    /\ pc' = "done"
    /\ UNCHANGED <<raw_data, call_result_action_name, protocol>>
    /\ UNCHANGED <<shared, calls>>
    /\ UNCHANGED <<dataclass_class, data_arg, message_arg, encoder_arg, value_arg>>

Next == Parse

Spec == Init /\ [][Next]_vars

TypeOK ==
    /\ pc \in {"call", "done"}
    /\ protocol \in OcppJsonProtocol
    /\ (pc = "call") <=> (result = NoResult)

(***************************************************************************)
(* Properties of parse.                                                    *)
(***************************************************************************)
Done == pc = "done"

IsNonEmptyList(raw) == raw.t = "list" /\ raw.l # <<>>

\* The first element is the integer id.
HasMsgTypeId(raw, id) == IsNonEmptyList(raw) /\ raw.l[1] = JInt(id)

\* A string of at most 36 characters.
IsValidUniqueId(v) == v.t = "str" /\ Len(v.s) <= 36

HasValidUniqueId(raw) == raw.t = "list" /\ Len(raw.l) >= 2 /\ IsValidUniqueId(raw.l[2])

IsPayload(v) == v.t \in {"dict", "NoneType"}

\* [2, id, action, payload]
IsValidCallEnvelope(raw) ==
    /\ HasMsgTypeId(raw, 2) /\ Len(raw.l) = 4 /\ IsValidUniqueId(raw.l[2])
    /\ raw.l[3].t = "str" /\ IsPayload(raw.l[4])

\* [3, id, payload]
IsValidCallResultEnvelope(raw) ==
    HasMsgTypeId(raw, 3) /\ Len(raw.l) = 3 /\ IsValidUniqueId(raw.l[2]) /\ IsPayload(raw.l[3])

\* [4, id, code, description, details]
IsValidCallErrorEnvelope(raw) ==
    /\ HasMsgTypeId(raw, 4) /\ Len(raw.l) = 5 /\ IsValidUniqueId(raw.l[2])
    /\ raw.l[3].t = "str" /\ raw.l[3].s \in ErrorCodeEnum
    /\ raw.l[4].t = "str" /\ raw.l[5].t = "dict"

IsOCPPException(r, code, request_id) ==
    /\ r.kind = "OCPPException"
    /\ r.ocpp_error.code = code
    /\ r.related_request_id = request_id

\* C1: parse ends either by returning a message or by raising OCPPException;
\* the only other outcome is the ValueError for a CallResult decoded without
\* call_result_action_name.  No other exception leaves parse.
C1_OnlyOCPPExceptionEscapes ==
    Done =>
        \/ result.kind \in {"return", "OCPPException"}
        \/ /\ result.kind = "raise" /\ result.type = "ValueError"
           /\ HasMsgTypeId(raw_data, 3) /\ Falsy(call_result_action_name)

\* C2 as stated: an OCPPException on an input with message type id 2, 3 or 4
\* and a valid uniqueId at position 1 is bound to that uniqueId, and to "-1"
\* only otherwise.
C2_BoundToReadableUniqueId ==
    (Done /\ result.kind = "OCPPException") =>
        IF (\E id \in {2, 3, 4} : HasMsgTypeId(raw_data, id)) /\ HasValidUniqueId(raw_data)
        THEN result.related_request_id = raw_data.l[2].s
        ELSE result.related_request_id = "-1"

\* C2 amended: an OCPPException raised by the entry check, the message type
\* check or the structural parse of the envelope is bound to "-1", whatever
\* position 1 holds; only one raised after the structural parse is bound to
\* another id.
C2_StructuralErrorsBoundToSentinel ==
    (Done /\ result.kind = "OCPPException") =>
        /\ result.raised_at \in {"entry", "msgtype", "structure"} => result.related_request_id = "-1"
        /\ result.related_request_id # "-1" => result.raised_at \in {"action", "payload"}

\* Witness of C2: a structural failure on an envelope whose uniqueId is valid.
C2_Witness ==
    /\ Done /\ result.kind = "OCPPException" /\ result.raised_at = "structure"
    /\ HasMsgTypeId(raw_data, 2) /\ HasValidUniqueId(raw_data)
    /\ result.related_request_id = "-1"

\* C3: a raw value that is not a list, or is the empty list, fails with an
\* OCPPException bound to "-1" whose code is GenericError under v16 and
\* RpcFrameworkError under v20.
C3_NotANonEmptyList ==
    (Done /\ ~IsNonEmptyList(raw_data)) =>
        IsOCPPException(result, IF protocol = "v16" THEN "GenericError" ELSE "RpcFrameworkError", "-1")

C3_Witness ==
    /\ Done /\ raw_data = JList(<<>>) /\ protocol = "v20"
    /\ IsOCPPException(result, "RpcFrameworkError", "-1")

\* C4: a non-empty list whose first element is anything other than 2, 3 or 4
\* fails with an OCPPException bound to "-1" whose code is GenericError under
\* v16 and MessageTypeNotSupported under v20.
C4_UnknownMessageType ==
    (Done /\ IsNonEmptyList(raw_data)
          /\ ~(raw_data.l[1].t \in {"int", "float"} /\ NumericValue(raw_data.l[1]) \in {2, 3, 4})) =>
        IsOCPPException(result,
                        IF protocol = "v16" THEN "GenericError" ELSE "MessageTypeNotSupported", "-1")

C6_StructuralParse ==
    LET envelope == StructuralParse(raw_data.l)
        wirePayload(v) == IF v.t = "NoneType" THEN EmptyDict ELSE v
    IN /\ (Done /\ IsValidCallEnvelope(raw_data)) =>
              /\ envelope.kind = "ok" /\ envelope.value.cls = "structure.Call"
              /\ ClassMessageTypeId[envelope.value.cls] = 2
              /\ envelope.value.attrs["uniqueId"] = raw_data.l[2]
              /\ envelope.value.attrs["action"] = raw_data.l[3]
              /\ envelope.value.attrs["payload"] = wirePayload(raw_data.l[4])
       /\ (Done /\ IsValidCallResultEnvelope(raw_data)) =>
              /\ envelope.kind = "ok" /\ envelope.value.cls = "structure.CallResult"
              /\ envelope.value.attrs["uniqueId"] = raw_data.l[2]
              /\ envelope.value.attrs["payload"] = wirePayload(raw_data.l[3])
       /\ (Done /\ IsValidCallErrorEnvelope(raw_data)) =>
              /\ result.kind = "return" /\ result.msg.cls = "structure.CallError"
              /\ result.msg.attrs["uniqueId"] = raw_data.l[2]
              /\ result.msg.attrs["errorCode"] = EnumMember("ErrorCodeEnum", raw_data.l[3])
              /\ result.msg.attrs["errorDescription"] = raw_data.l[4]
              /\ result.msg.attrs["errorDetails"] = raw_data.l[5]

\* C7: a valid Call is returned with its payload parsed against the request
\* schema of its action, a valid CallResult with its payload parsed against the
\* response schema of the action named by call_result_action_name; the payload
\* of the returned message is the typed record.
C7_PayloadSchemaSelection ==
    LET registry == get_implemented_messages(protocol)
        wirePayload(v) == IF v.t = "NoneType" THEN EmptyDict ELSE v
    IN /\ (Done /\ IsValidCallEnvelope(raw_data) /\ raw_data.l[3].s \in DOMAIN registry
                /\ parse_data(get_request_payload_dataclass(registry[raw_data.l[3].s]),
                              wirePayload(raw_data.l[4])).kind = "ok") =>
              /\ result.kind = "return"
              /\ result.msg.attrs["payload"].t = "dataclass"
              /\ result.msg.attrs["payload"].cls =
                     get_request_payload_dataclass(registry[raw_data.l[3].s])
       /\ (Done /\ IsValidCallResultEnvelope(raw_data) /\ ~Falsy(call_result_action_name)
                /\ call_result_action_name.s \in DOMAIN registry
                /\ parse_data(get_response_payload_dataclass(registry[call_result_action_name.s]),
                              wirePayload(raw_data.l[3])).kind = "ok") =>
              /\ result.kind = "return"
              /\ result.msg.attrs["payload"].t = "dataclass"
              /\ result.msg.attrs["payload"].cls =
                     get_response_payload_dataclass(registry[call_result_action_name.s])

\* Position of the payload element in a Call (4) or CallResult (3) list.
PayloadIndex(raw) == IF HasMsgTypeId(raw, 2) THEN 4 ELSE 3

HasNullPayload(raw) ==
    /\ HasMsgTypeId(raw, 2) \/ HasMsgTypeId(raw, 3)
    /\ Len(raw.l) >= PayloadIndex(raw)
    /\ raw.l[PayloadIndex(raw)] = JNull

WithEmptyObjectPayload(raw) == JList([raw.l EXCEPT ![PayloadIndex(raw)] = EmptyDict])

\* C8: a Call or CallResult envelope whose payload element is null has the same
\* outcome as the same envelope with payload {}.
C8_NullPayloadIsEmptyObject ==
    (Done /\ HasNullPayload(raw_data)) =>
        result = parse(WithEmptyObjectPayload(raw_data), call_result_action_name, protocol)

C8_Witness ==
    /\ Done
    /\ raw_data = JList(<<JInt(2), JStr("19223201"), JStr("Heartbeat"), JNull>>)
    /\ result = parse(JList(<<JInt(2), JStr("19223201"), JStr("Heartbeat"), EmptyDict>>),
                      call_result_action_name, protocol)

\* C9: a structurally valid CallResult parsed with call_result_action_name
\* omitted, None or empty raises ValueError; for a Call or CallError the name
\* is not required and does not change the outcome.
C9_MissingActionNameIsUsageError ==
    /\ (Done /\ IsValidCallResultEnvelope(raw_data) /\ Falsy(call_result_action_name)) =>
           (result.kind = "raise" /\ result.type = "ValueError")
    /\ (Done /\ (HasMsgTypeId(raw_data, 2) \/ HasMsgTypeId(raw_data, 4))) =>
           /\ ~(result.kind = "raise" /\ result.type = "ValueError")
           /\ \A name \in ActionNames : parse(raw_data, name, protocol) = result

\* The list starts with a valid envelope of message type id and goes on.
HasValidEnvelopePrefix(raw, id) ==
    LET n == Len(fields(_MSGTYPEID_TO_DATACLASS[id]))
        prefix == JList(SubSeq(raw.l, 1, n))
    IN /\ HasMsgTypeId(raw, id) /\ Len(raw.l) > n
       /\ \/ IsValidCallEnvelope(prefix)
          \/ IsValidCallResultEnvelope(prefix)
          \/ IsValidCallErrorEnvelope(prefix)

\* C10: an envelope list with more positional elements than its envelope
\* schema has fields (a valid envelope followed by extra elements) fails with
\* ProtocolError bound to "-1".
C10_TooManyElements ==
    (Done /\ \E id \in {2, 3, 4} : HasValidEnvelopePrefix(raw_data, id)) =>
        IsOCPPException(result, "ProtocolError", "-1")

(***************************************************************************)
(* The inputs of a call of parse_data: a schema and a wire object.  The    *)
(* wire objects of a schema give each of its fields no key, null, or one   *)
(* of a few wire values of the field's type, and may carry one more key.   *)
(***************************************************************************)
MaxListLen == 2

Schemas ==
    DOMAIN EnvelopeFields \cup DOMAIN V20ComplexTypeFields
        \cup DOMAIN V16PayloadFields \cup DOMAIN V20PayloadFields
        \cup (DOMAIN AuthorizeComplexTypeFields \ {"v20.OCSPRequestDataType"})
        \cup DOMAIN AuthorizePayloadFields

\* More elements than a list of cardinality 4 may hold.
TooManyElements == 5

LongString51 == "123456789012345678901234567890123456789012345678901"

\* For each SimpleType, a wire value its declared validator or encoder accepts.
AcceptedSimpleValue ==
    ("structure.MessageType" :> JInt(2))
    @@ ("structure.ErrorCode" :> JStr("GenericError"))
    @@ ("v16.PositiveInteger" :> JInt(1))
    @@ ("v16.AvailabilityType" :> JStr("Operative"))
    @@ ("v16.AvailabilityStatus" :> JStr("Accepted"))
    @@ ("v16.DateTime" :> JStr("2019-03-21T12:00:00Z"))
    @@ ("v20.DateTime" :> JStr("2019-03-21T12:00:00Z"))
    @@ ("v20.OperationalStatusEnumType" :> JStr("Operative"))
    @@ ("v20.ChangeAvailabilityStatusEnumType" :> JStr("Accepted"))
    @@ ("v20.AttributeEnumType" :> JStr("Actual"))
    @@ ("v20.GetVariableStatusEnumType" :> JStr("Accepted"))
    @@ ("v20._String50" :> JStr("Connector"))
    @@ ("v20._String1000" :> JStr("Connector"))
    @@ ("v20._IdentifierString36" :> JStr("Connector"))
    @@ ("v20._IdentifierString128" :> JStr("Connector"))
    @@ ("v20._String20" :> JStr("Connector"))
    @@ ("v20._String128" :> JStr("Connector"))
    @@ ("v20._String512" :> JStr("Connector"))
    @@ ("v20.HashAlgorithmEnumType" :> JStr("SHA256"))
    @@ ("v20.IdTokenEnumType" :> JStr("Central"))
    @@ ("v16.Decimal" :> PyFloat(2100000000))

\* For each SimpleType, a wire value of the base type that its declared
\* validator or encoder refuses (none for a string of at most 1000 characters).
RefusedSimpleValue ==
    ("structure.MessageType" :> JInt(666))
    @@ ("structure.ErrorCode" :> JStr("NotAnErrorCode"))
    @@ ("v16.PositiveInteger" :> JInt(0 - 1))
    @@ ("v16.AvailabilityType" :> JStr("bogus"))
    @@ ("v16.AvailabilityStatus" :> JStr("bogus"))
    @@ ("v16.DateTime" :> JStr("garbage"))
    @@ ("v20.DateTime" :> JStr("garbage"))
    @@ ("v20.OperationalStatusEnumType" :> JStr("bogus"))
    @@ ("v20.ChangeAvailabilityStatusEnumType" :> JStr("bogus"))
    @@ ("v20.AttributeEnumType" :> JStr("bogus"))
    @@ ("v20.GetVariableStatusEnumType" :> JStr("bogus"))
    @@ ("v20._String50" :> JStr(LongString51))
    @@ ("v20._String1000" :> JStr("Connector"))
    @@ ("v20._IdentifierString36" :> JStr("not an identifier"))
    @@ ("v20._IdentifierString128" :> JStr("not an identifier"))
    @@ ("v20._String20" :> JStr(LongString51))
    @@ ("v20._String128" :> JStr("Connector"))
    @@ ("v20._String512" :> JStr("Connector"))
    @@ ("v20.HashAlgorithmEnumType" :> JStr("bogus"))
    @@ ("v20.IdTokenEnumType" :> JStr("bogus"))
    @@ ("v16.Decimal" :> PyFloat(2120000000))

\* A wire value of a Python type, and one of another type.
PrimWireValue(py) ==
    CASE py = "int" -> JInt(1)
      [] py = "str" -> JStr("Connector")
      [] py = "float" -> PyFloat(2100000000)
      [] OTHER -> EmptyDict

\* One wire value of each primitive JSON kind: string, integer, float, boolean.
KindSamples == {JStr("Connector"), JInt(1), PyFloat(2100000000), JBool(TRUE)}

\* The defined values of a Python type that are falsy.
DefinedFalsy(type) ==
    CASE type.k = "prim" /\ type.py = "int" -> {JInt(0), JBool(FALSE)}
      [] type.k = "prim" /\ type.py = "str" -> {JStr("")}
      [] type.k = "simple" /\ fields(type.cls)[1].type.py = "str" -> {JStr("")}
      [] OTHER -> {}

WrongPrimWireValue(py) == IF py = "str" THEN JInt(1) ELSE JStr("one")

RECURSIVE ValidWireValue(_)
\* A wire value that the schema of the type accepts; for a ComplexType the
\* object holding exactly its required fields.
ValidWireValue(type) ==
    CASE type.k = "prim" -> PrimWireValue(type.py)
      [] type.k = "simple" -> AcceptedSimpleValue[type.cls]
      [] type.k = "complex" ->
            JDict([name \in {required_fields(type.cls)[i].name :
                               i \in DOMAIN required_fields(type.cls)} |->
                     ValidWireValue(
                         (CHOOSE f \in {fields(type.cls)[i] : i \in DOMAIN fields(type.cls)} :
                             f.name = name).type)])
      [] OTHER -> JList(<<ValidWireValue(type.of)>>)

\* A wire value the schema of the type refuses.
InvalidWireValue(type) ==
    CASE type.k = "prim" -> WrongPrimWireValue(type.py)
      [] type.k = "simple" -> RefusedSimpleValue[type.cls]
      [] type.k = "complex" ->
            JDict([name \in DOMAIN ValidWireValue(type).d \ {required_fields(type.cls)[1].name} |->
                     ValidWireValue(type).d[name]])
      [] OTHER -> JStr("not a list")

\* The object of a ComplexType whose first required field is null.
NullFieldObject(type) ==
    JDict([ValidWireValue(type).d EXCEPT ![required_fields(type.cls)[1].name] = JNull])

RECURSIVE ListsUpTo(_, _)
\* The lists of at most n of the given elements.
ListsUpTo(elements, n) ==
    IF n = 0 THEN {<<>>}
    ELSE ListsUpTo(elements, n - 1)
         \cup {Append(l, e) : l \in {x \in ListsUpTo(elements, n - 1) : Len(x) = n - 1},
                              e \in elements}

\* The wire values tried for a field of the type.
TypeSamples(type) ==
    CASE type.k = "prim" -> {ValidWireValue(type), InvalidWireValue(type)} \cup KindSamples
      [] type.k = "simple" ->
            {ValidWireValue(type), InvalidWireValue(type),
             WrongPrimWireValue(fields(type.cls)[1].type.py), JBool(TRUE)}
      [] type.k = "complex" ->
            {ValidWireValue(type), InvalidWireValue(type), NullFieldObject(type), JInt(5)}
      [] OTHER ->
            {JList(l) : l \in ListsUpTo({ValidWireValue(type.of), InvalidWireValue(type.of)},
                                        MaxListLen)}
            \cup {InvalidWireValue(type), JStr("")}
            \cup {JList([i \in 1..TooManyElements |-> ValidWireValue(type.of)]),
                  JList([i \in 1..TooManyElements |->
                           IF i = 1 THEN InvalidWireValue(type.of) ELSE ValidWireValue(type.of)])}

RECURSIVE ObjectsFrom(_, _)
\* The key/value mappings over the fields from the i-th on.
ObjectsFrom(dataclass_fields, i) ==
    IF i > Len(dataclass_fields) THEN {<<>>}
    ELSE ObjectsFrom(dataclass_fields, i + 1)
         \cup {(dataclass_fields[i].name :> v) @@ o :
                  o \in ObjectsFrom(dataclass_fields, i + 1),
                  v \in {JNull} \cup TypeSamples(dataclass_fields[i].type)
                           \cup (IF _is_optional(dataclass_fields[i])
                                 THEN DefinedFalsy(dataclass_fields[i].type) ELSE {})}

ExtraKey == "extra"

WireObjects(cls) ==
    {JDict(o) : o \in ObjectsFrom(fields(cls), 1)}
    \cup {JDict(o @@ (ExtraKey :> JStr("argument"))) : o \in ObjectsFrom(fields(cls), 1)}

(***************************************************************************)
(* The state machine of one call of parse_data.                            *)
(***************************************************************************)
InitParseData ==
    /\ InitShared
    /\ calls = Unused
    /\ dataclass_class \in Schemas
    /\ data_arg \in WireObjects(dataclass_class)
    /\ pc = "call"
    /\ result = NoResult
    /\ raw_data = Unused /\ call_result_action_name = Unused /\ protocol = Unused
    /\ message_arg = Unused /\ encoder_arg = Unused /\ value_arg = Unused

ParseData ==
    /\ pc = "call"
    /\ result' = parse_data(dataclass_class, data_arg)
    /\ pc' = "parse_data"
    /\ UNCHANGED <<dataclass_class, data_arg>>
    /\ UNCHANGED <<raw_data, call_result_action_name, protocol, message_arg, encoder_arg, value_arg>>
    /\ UNCHANGED <<shared, calls>>

NextParseData == ParseData

SpecParseData == InitParseData /\ [][NextParseData]_vars

(***************************************************************************)
(* Properties of parse_data.                                               *)
(***************************************************************************)
DoneParseData == pc = "parse_data"

RequiredNames(cls) == {required_fields(cls)[i].name : i \in DOMAIN required_fields(cls)}

\* The declared field of the class with the given name.
FieldNamed(cls, name) ==
    CHOOSE f \in {fields(cls)[i] : i \in DOMAIN fields(cls)} : f.name = name

\* Some required field of the class is absent from the wire object, is null,
\* or is a List field holding the empty list.
LacksRequiredField(cls, wire) ==
    \E f \in {required_fields(cls)[i] : i \in DOMAIN required_fields(cls)} :
        \/ f.name \notin DOMAIN wire.d
        \/ wire.d[f.name] = JNull
        \/ f.type.k = "list" /\ wire.d[f.name] = JList(<<>>)

\* The wire object holds exactly the required fields, all valid but the one of
\* the given name, which holds a nested object (or a list of one nested
\* object) lacking a required field of its own.
OnlyNestedObjectLacksField(cls, wire, name) ==
    /\ DOMAIN wire.d = RequiredNames(cls) /\ name \in DOMAIN wire.d
    /\ \A n \in DOMAIN wire.d \ {name} : wire.d[n] = ValidWireValue(FieldNamed(cls, n).type)
    /\ \/ /\ FieldNamed(cls, name).type.k = "complex"
          /\ wire.d[name] = InvalidWireValue(FieldNamed(cls, name).type)
       \/ /\ FieldNamed(cls, name).type.k = "list"
          /\ wire.d[name] = JList(<<InvalidWireValue(FieldNamed(cls, name).type.of)>>)

\* C11: for every schema, parse_data fails with ProtocolError whenever a
\* required field is absent from the wire object, is null, or is a List field
\* holding the empty list; the same holds for a nested object or list element
\* of an otherwise valid wire object.
C11_RequiredFieldInvariant ==
    /\ (DoneParseData /\ LacksRequiredField(dataclass_class, data_arg)) => result = ProtocolError
    /\ (DoneParseData /\ \E name \in RequiredNames(dataclass_class) :
                            OnlyNestedObjectLacksField(dataclass_class, data_arg, name)) =>
           result = ProtocolError

C11_Witness ==
    /\ DoneParseData
    /\ dataclass_class = "v20.GetVariables.Request"
    /\ data_arg = JDict([getVariableData |-> JList(<<>>)])
    /\ result = ProtocolError

\* C11, nested case: a list element lacking a required field of its schema.
C11_NestedWitness ==
    /\ DoneParseData
    /\ dataclass_class = "v20.GetVariables.Request"
    /\ OnlyNestedObjectLacksField(dataclass_class, data_arg, "getVariableData")
    /\ result = ProtocolError

\* C12: parse_data fails with ProtocolError whenever the wire object has more
\* keys than the schema declares fields, whatever the fields hold: such an
\* object never yields TypeConstraintViolation or PropertyConstraintViolation.
C12_FieldCountGuard ==
    (DoneParseData /\ Cardinality(DOMAIN data_arg.d) > Len(fields(dataclass_class))) =>
        result = ProtocolError

\* Witness of C12: all the fields and one more key, a field of the wrong type.
C12_Witness ==
    /\ DoneParseData
    /\ dataclass_class = "v16.ChangeAvailability.req"
    /\ data_arg = JDict([connectorId |-> JStr("one"), type |-> JStr("Operative"),
                         extra |-> JStr("argument")])
    /\ result = ProtocolError

\* The wire object holds exactly the required fields of the class, each with a
\* value its field accepts.
HoldsExactlyValidRequiredFields(cls, wire) ==
    /\ DOMAIN wire.d = RequiredNames(cls)
    /\ \A n \in DOMAIN wire.d : wire.d[n] = ValidWireValue(FieldNamed(cls, n).type)

\* C13: for every schema, parse_data returns a record of the schema holding a
\* value for each required field whenever the wire object supplies exactly the
\* required fields, each with a value that validates.
C13_ExactlyRequiredFieldsSucceeds ==
    (DoneParseData /\ HoldsExactlyValidRequiredFields(dataclass_class, data_arg)) =>
        /\ result.kind = "ok"
        /\ result.value.t = "dataclass" /\ result.value.cls = dataclass_class
        /\ RequiredNames(dataclass_class) \subseteq DOMAIN result.value.attrs
        /\ \A n \in RequiredNames(dataclass_class) : result.value.attrs[n] # JNull

(***************************************************************************)
(* The inputs of a call of serialize_fields or serialize: native records.  *)
(* A record gives each field None or one of a few native values.           *)
(***************************************************************************)
\* The native record of a class with the given attributes.
Record(cls, attrs) == [t |-> "dataclass", cls |-> cls, attrs |-> attrs]

UtcDateTime == DateTimeValue("2019-03-21T12:00:00", "UTC")

\* For each SimpleType, a native value its declared validator or encoder
\* serializes: an enum member, a UTC timestamp, or the validated base value.
NativeSimpleValue ==
    ("structure.MessageType" :> EnumMember("MessageTypeEnum", JInt(2)))
    @@ ("structure.ErrorCode" :> EnumMember("ErrorCodeEnum", JStr("GenericError")))
    @@ ("v16.PositiveInteger" :> JInt(1))
    @@ ("v16.AvailabilityType" :> EnumMember("AvailabilityTypeEnum", JStr("Operative")))
    @@ ("v16.AvailabilityStatus" :> EnumMember("AvailabilityStatusEnum", JStr("Accepted")))
    @@ ("v16.DateTime" :> UtcDateTime)
    @@ ("v20.DateTime" :> UtcDateTime)
    @@ ("v20.OperationalStatusEnumType" :> EnumMember("OperationalStatusEnum", JStr("Operative")))
    @@ ("v20.ChangeAvailabilityStatusEnumType" :>
            EnumMember("ChangeAvailabilityStatusEnum", JStr("Accepted")))
    @@ ("v20.AttributeEnumType" :> EnumMember("AttributeEnum", JStr("Actual")))
    @@ ("v20.GetVariableStatusEnumType" :> EnumMember("GetVariableStatusEnum", JStr("Accepted")))
    @@ ("v20._String50" :> JStr("Connector"))
    @@ ("v20._String1000" :> JStr("Connector"))
    @@ ("v20._IdentifierString36" :> JStr("Connector"))
    @@ ("v20._IdentifierString128" :> JStr("Connector"))
    @@ ("v20._String20" :> JStr("Connector"))
    @@ ("v20._String128" :> JStr("Connector"))
    @@ ("v20._String512" :> JStr("Connector"))
    @@ ("v20.HashAlgorithmEnumType" :> EnumMember("HashAlgorithmEnum", JStr("SHA256")))
    @@ ("v20.IdTokenEnumType" :> EnumMember("IdTokenEnum", JStr("Central")))
    @@ ("v16.Decimal" :> PyFloat(2100000000))

RECURSIVE ValidNativeValue(_)
\* A native value of the type; for a ComplexType the record whose required
\* fields are set and whose optional fields are None.
ValidNativeValue(type) ==
    CASE type.k = "prim" -> PrimWireValue(type.py)
      [] type.k = "simple" -> NativeSimpleValue[type.cls]
      [] type.k = "complex" ->
            Record(type.cls,
                   [name \in InitNames(fields(type.cls)) |->
                      IF name \in RequiredNames(type.cls)
                      THEN ValidNativeValue(FieldNamed(type.cls, name).type)
                      ELSE JNull])
      [] OTHER -> JList(<<ValidNativeValue(type.of)>>)

\* The native values tried for a field of the type.
NativeSamples(type) ==
    CASE type.k = "prim" -> {ValidNativeValue(type), WrongPrimWireValue(type.py)}
      [] type.k = "simple" ->
            {ValidNativeValue(type), AcceptedSimpleValue[type.cls], RefusedSimpleValue[type.cls]}
      [] type.k = "complex" -> {ValidNativeValue(type), JInt(5)}
      [] OTHER ->
            {JList(l) : l \in ListsUpTo({ValidNativeValue(type.of)}, MaxListLen)}
            \cup {JStr("not a list")}

RECURSIVE AttrsFrom(_, _)
\* The attribute mappings over the init fields from the i-th on.
AttrsFrom(dataclass_fields, i) ==
    IF i > Len(dataclass_fields) THEN {<<>>}
    ELSE IF ~dataclass_fields[i].init THEN AttrsFrom(dataclass_fields, i + 1)
    ELSE {(dataclass_fields[i].name :> v) @@ o :
             o \in AttrsFrom(dataclass_fields, i + 1),
             v \in {JNull} \cup NativeSamples(dataclass_fields[i].type)}

PayloadSchemas ==
    DOMAIN V20ComplexTypeFields \cup DOMAIN V16PayloadFields \cup DOMAIN V20PayloadFields
        \cup DOMAIN AuthorizeComplexTypeFields \cup DOMAIN AuthorizePayloadFields

PayloadRecords ==
    UNION {{Record(cls, attrs) : attrs \in AttrsFrom(fields(cls), 1)} : cls \in PayloadSchemas}

UniqueIds == {JStr("19223201"), JStr(LongUniqueId), JInt(666)}

\* The payloads carried by the envelope messages of the model.
EnvelopePayloads ==
    {Record("v16.Heartbeat.req", <<>>),
     Record("v16.GetLocalListVersion.conf", [listVersion |-> JInt(1)]),
     Record("v20.Heartbeat.Response", [currentTime |-> UtcDateTime]),
     EmptyDict}

EnvelopeMessages ==
    {Record("structure.Call", [uniqueId |-> u, action |-> a, payload |-> p]) :
        u \in UniqueIds, a \in {JStr("Heartbeat"), JStr("UnknownAction")}, p \in EnvelopePayloads}
    \cup {Record("structure.CallResult", [uniqueId |-> u, payload |-> p]) :
             u \in UniqueIds, p \in EnvelopePayloads}
    \cup {Record("structure.CallError",
                 [uniqueId |-> u, errorCode |-> c, errorDescription |-> JStr("Something went wrong"),
                  errorDetails |-> d]) :
             u \in UniqueIds,
             c \in {EnumMember("ErrorCodeEnum", JStr("GenericError")), JStr("GenericError")},
             d \in {EmptyDict, DontCare}}

IsEnvelopeMessage(message) == message.cls \in DOMAIN EnvelopeFields

(***************************************************************************)
(* The state machine of one call of serialize_fields (on a payload record, *)
(* its result then parsed back) or of serialize (on an envelope message).  *)
(***************************************************************************)
InitSerialize ==
    /\ InitShared
    /\ calls = Unused
    /\ message_arg \in PayloadRecords \cup EnvelopeMessages
    /\ pc = "call"
    /\ result = NoResult
    /\ raw_data = Unused /\ call_result_action_name = Unused /\ protocol = Unused
    /\ dataclass_class = Unused /\ data_arg = Unused
    /\ encoder_arg = Unused /\ value_arg = Unused

SerializeFields ==
    /\ pc = "call"
    /\ ~IsEnvelopeMessage(message_arg)
    /\ result' = serialize_fields(message_arg)
    /\ pc' = "serialize_fields"
    /\ UNCHANGED <<message_arg, dataclass_class, data_arg>>
    /\ UNCHANGED <<raw_data, call_result_action_name, protocol, encoder_arg, value_arg>>
    /\ UNCHANGED <<shared, calls>>

\* parse_data(type(message), serialize_fields(message))
ParseSerializedFields ==
    /\ pc = "serialize_fields"
    /\ result.kind = "ok"
    /\ dataclass_class' = message_arg.cls
    /\ data_arg' = result.value
    /\ result' = parse_data(message_arg.cls, result.value)
    /\ pc' = "parse_data"
    /\ UNCHANGED <<message_arg, raw_data, call_result_action_name, protocol, encoder_arg, value_arg>>
    /\ UNCHANGED <<shared, calls>>

Serialize ==
    /\ pc = "call"
    /\ IsEnvelopeMessage(message_arg)
    /\ result' = serialize(message_arg)
    /\ pc' = "serialize"
    /\ UNCHANGED <<message_arg, dataclass_class, data_arg>>
    /\ UNCHANGED <<raw_data, call_result_action_name, protocol, encoder_arg, value_arg>>
    /\ UNCHANGED <<shared, calls>>

NextSerialize == SerializeFields \/ ParseSerializedFields \/ Serialize

SpecSerialize == InitSerialize /\ [][NextSerialize]_vars

(***************************************************************************)
(* Properties of serialize_fields and serialize.                           *)
(***************************************************************************)
\* A payload record whose required fields hold valid native values and whose
\* optional fields hold None or a valid native value.
IsValidNativeRecord(message) ==
    /\ message.t = "dataclass" /\ message.cls \in PayloadSchemas
    /\ DOMAIN message.attrs = InitNames(fields(message.cls))
    /\ \A n \in DOMAIN message.attrs :
          \/ message.attrs[n] = ValidNativeValue(FieldNamed(message.cls, n).type)
          \/ n \notin RequiredNames(message.cls) /\ message.attrs[n] = JNull

\* An envelope message with a valid uniqueId, a valid payload record and, for
\* a CallError, an ErrorCodeEnum member as errorCode.
IsValidEnvelopeMessage(message) ==
    /\ IsEnvelopeMessage(message)
    /\ IsValidUniqueId(message.attrs["uniqueId"])
    /\ "payload" \in DOMAIN message.attrs => IsValidNativeRecord(message.attrs["payload"])
    /\ "errorCode" \in DOMAIN message.attrs => message.attrs["errorCode"].t = "enum"

\* C14: round trip.  serialize_fields succeeds on every valid native record r
\* and parse_data of its result returns a record equal to r (no schema of the
\* model has an optional list, so no normalisation applies); serialize
\* succeeds on every valid envelope message m and parse of its result, given
\* the action name, returns m.
C14_RoundTrip ==
    /\ (pc = "serialize_fields" /\ IsValidNativeRecord(message_arg)) => result.kind = "ok"
    /\ (pc = "parse_data" /\ IsValidNativeRecord(message_arg)) => result = Ok(message_arg)
    /\ (pc = "serialize" /\ IsValidEnvelopeMessage(message_arg)) =>
           /\ result.kind = "ok"
           /\ \E p \in OcppJsonProtocol, name \in ActionNames :
                 parse(result.value, name, p) = Returned(message_arg)

\* The wire elements of the envelope fields that precede the payload.
ExpectedEnvelopeHead(message) ==
    CASE message.cls = "structure.Call" ->
            <<JInt(2), message.attrs["uniqueId"], message.attrs["action"]>>
      [] message.cls = "structure.CallResult" -> <<JInt(3), message.attrs["uniqueId"]>>
      [] OTHER ->
            <<JInt(4), message.attrs["uniqueId"], message.attrs["errorCode"].v,
              message.attrs["errorDescription"], message.attrs["errorDetails"]>>

\* C15: serialize returns the positional list [2, uniqueId, action, payload],
\* [3, uniqueId, payload] or [4, uniqueId, errorCode, errorDescription,
\* errorDetails]: the message type id, the non-payload fields in declared
\* order, and the serialized payload last for Call and CallResult only.
C15_SerializePositionalList ==
    (pc = "serialize" /\ IsValidEnvelopeMessage(message_arg)) =>
        /\ result.kind = "ok"
        /\ result.value =
              JList(IF "payload" \in DOMAIN message_arg.attrs
                    THEN Append(ExpectedEnvelopeHead(message_arg),
                                serialize_fields(message_arg.attrs["payload"]).value)
                    ELSE ExpectedEnvelopeHead(message_arg))

IsEnvelopeWithLongUniqueId(raw) ==
    /\ raw.t = "list" /\ Len(raw.l) >= 2
    /\ raw.l[2].t = "str" /\ Len(raw.l[2].s) > 36
    /\ \/ IsValidCallEnvelope(JList([raw.l EXCEPT ![2] = JStr("19223201")]))
       \/ IsValidCallResultEnvelope(JList([raw.l EXCEPT ![2] = JStr("19223201")]))
       \/ IsValidCallErrorEnvelope(JList([raw.l EXCEPT ![2] = JStr("19223201")]))

\* The Heartbeat Call carrying the given uniqueId.
HeartbeatCall(uniqueId) ==
    Record("structure.Call",
           [uniqueId |-> uniqueId, action |-> JStr("Heartbeat"),
            payload |-> Record("v16.Heartbeat.req", <<>>)])

IsPropertyConstraintViolation(r) == r.kind = "err" /\ r.code = "PropertyConstraintViolation"

\* C17: the uniqueId is limited to 36 characters in both directions.  parse
\* rejects an envelope whose uniqueId is a longer string with
\* PropertyConstraintViolation and does not reject a well-formed envelope for
\* its uniqueId; serialize rejects a message carrying a longer uniqueId with
\* the same error and serializes a message whose uniqueId has at most 36
\* characters.
C17_UniqueIdMaxLength ==
    /\ (Done /\ IsEnvelopeWithLongUniqueId(raw_data)) =>
           (result.kind = "OCPPException" /\ IsPropertyConstraintViolation(result.ocpp_error))
    /\ (Done /\ (\/ IsValidCallEnvelope(raw_data) \/ IsValidCallResultEnvelope(raw_data)
                 \/ IsValidCallErrorEnvelope(raw_data))) =>
           ~(result.kind = "OCPPException" /\ IsPropertyConstraintViolation(result.ocpp_error))
    /\ (Done /\ IsEnvelopeWithLongUniqueId(raw_data)) =>
           IsPropertyConstraintViolation(serialize(HeartbeatCall(raw_data.l[2])))
    /\ (Done /\ IsValidCallEnvelope(raw_data)) =>
           serialize(HeartbeatCall(raw_data.l[2])).kind = "ok"

(***************************************************************************)
(* The inputs of a call of an encoder, and the state machine of one call   *)
(* of from_json or to_json, the result of to_json then decoded again.      *)
(***************************************************************************)
EnumEncoders == {EnumEncoder("MessageTypeEnum"), EnumEncoder("ErrorCodeEnum"),
                 EnumEncoder("AvailabilityTypeEnum"), EnumEncoder("AttributeEnum")}

Encoders == {DateTimeEncoder, OutgoingMessageDecimalEncoder} \cup EnumEncoders

Timestamps ==
    {DateTimeValue(ts, tz) : ts \in {"2019-03-21T12:00:00", "2019-01-30T12:30:00"},
                             tz \in {"naive", "UTC", "+01:00"}}

\* The members of the enumerations of the model's encoders.
Members == UNION {{EnumMember(e.enum_class, m) : m \in EnumMembers(e.enum_class)} : e \in EnumEncoders}

\* The values given to DateTimeEncoder: wire strings, timestamps, other values.
DateTimeInputs ==
    {JStr(s) : s \in DOMAIN IsoStrings} \cup Timestamps
    \cup {JStr("well thats not a date"), JStr(""), JInt(1553169600), JNull}

\* The values given to an EnumEncoder: wire scalars, members, other values.
EnumInputs ==
    {JInt(2), JInt(3), JInt(4), JInt(123), JFloat(2), JBool(TRUE), JNull, JList(<<JInt(2)>>),
     JStr("well thats not an enum"), JStr("2")}
    \cup {JStr(m) : m \in ErrorCodeEnum \cup AvailabilityTypeEnum \cup AttributeEnum}
    \cup Members

\* The values given to OutgoingMessageDecimalEncoder: numbers, strings, other values.
DecimalInputs ==
    {PyFloat(n) : n \in DOMAIN FloatExpansion} \cup {HugeFloat}
    \cup {JStr(s) : s \in DOMAIN NumericStrings}
    \cup {JInt(0), JInt(1), JBool(TRUE), JStr("well thats not a float"), JNull, JList(<<JInt(1)>>)}

EncoderInputs(e) ==
    CASE e.enc = "DateTimeEncoder" -> DateTimeInputs
      [] e.enc = "EnumEncoder" -> EnumInputs
      [] OTHER -> DecimalInputs

InitEncoder ==
    /\ InitShared
    /\ calls = Unused
    /\ encoder_arg \in Encoders
    /\ value_arg \in EncoderInputs(encoder_arg)
    /\ pc = "call"
    /\ result = NoResult
    /\ raw_data = Unused /\ call_result_action_name = Unused /\ protocol = Unused
    /\ dataclass_class = Unused /\ data_arg = Unused /\ message_arg = Unused

FromJson ==
    /\ pc = "call"
    /\ result' = from_json(encoder_arg, value_arg)
    /\ pc' = "from_json"
    /\ UNCHANGED <<encoder_arg, value_arg>>
    /\ UNCHANGED <<raw_data, call_result_action_name, protocol, dataclass_class, data_arg, message_arg>>
    /\ UNCHANGED <<shared, calls>>

ToJson ==
    /\ pc = "call"
    /\ result' = to_json(encoder_arg, value_arg)
    /\ pc' = "to_json"
    /\ UNCHANGED <<encoder_arg, value_arg>>
    /\ UNCHANGED <<raw_data, call_result_action_name, protocol, dataclass_class, data_arg, message_arg>>
    /\ UNCHANGED <<shared, calls>>

\* encoder.from_json(encoder.to_json(value))
FromJsonOfToJson ==
    /\ pc = "to_json"
    /\ result.kind = "ok"
    /\ result' = from_json(encoder_arg, result.value)
    /\ pc' = "from_json_of_to_json"
    /\ UNCHANGED <<encoder_arg, value_arg>>
    /\ UNCHANGED <<raw_data, call_result_action_name, protocol, dataclass_class, data_arg, message_arg>>
    /\ UNCHANGED <<shared, calls>>

NextEncoder == FromJson \/ ToJson \/ FromJsonOfToJson

SpecEncoder == InitEncoder /\ [][NextEncoder]_vars

(***************************************************************************)
(* Properties of the encoders.                                             *)
(***************************************************************************)
IsDateTimeCall(step) == pc = step /\ encoder_arg = DateTimeEncoder

\* The string is an ISO-8601 timestamp without offset or with a UTC offset.
IsUtcOrNaiveIsoString(v) ==
    v.t = "str" /\ v.s \in DOMAIN IsoStrings /\ IsoStrings[v.s].tz \in {"naive", "UTC"}

\* C18: DateTimeEncoder admits only UTC timestamps.  from_json returns the
\* UTC-tagged timestamp of a string without offset or with a UTC offset and
\* fails with PropertyConstraintViolation for any other offset and for a
\* malformed string; to_json fails with TypeConstraintViolation for a value
\* that is no timestamp, with PropertyConstraintViolation for a naive or
\* non-UTC timestamp, and otherwise returns the ISO-8601 string with the
\* +00:00 offset; from_json(to_json(t)) = t for every UTC timestamp t.
C18_DateTimeEncoderUtcOnly ==
    /\ (IsDateTimeCall("from_json") /\ IsUtcOrNaiveIsoString(value_arg)) =>
           result = Ok(DateTimeValue(IsoStrings[value_arg.s].ts, "UTC"))
    /\ (IsDateTimeCall("from_json") /\ value_arg.t = "str" /\ ~IsUtcOrNaiveIsoString(value_arg)) =>
           result = PropertyConstraintViolationError(NoField)
    /\ (IsDateTimeCall("to_json") /\ value_arg.t # "datetime") =>
           result = TypeConstraintViolationError(NoField)
    /\ (IsDateTimeCall("to_json") /\ value_arg.t = "datetime" /\ value_arg.tz # "UTC") =>
           result = PropertyConstraintViolationError(NoField)
    /\ (IsDateTimeCall("to_json") /\ value_arg.t = "datetime" /\ value_arg.tz = "UTC") =>
           result = Ok(JStr(value_arg.ts \o "+00:00"))
    /\ (IsDateTimeCall("from_json_of_to_json") /\ value_arg.t = "datetime"
            /\ value_arg.tz = "UTC") =>
           result = Ok(value_arg)

\* Witness of C18: a timestamp without offset decoded as UTC.
C18_Witness ==
    /\ IsDateTimeCall("from_json")
    /\ value_arg = JStr("2019-03-21T12:00:00")
    /\ result = Ok(UtcDateTime)

IsEnumCall(step) == pc = step /\ encoder_arg \in EnumEncoders

\* v == w in Python, for a member value v and a wire scalar w.
WireEquals(v, w) == v = w \/ (v.t = "int" /\ w.t = "float" /\ v.i = w.n)

\* C19: EnumEncoder(E).from_json(v) returns the member of E whose value equals
\* the wire scalar v and fails with PropertyConstraintViolation when E has no
\* such member; to_json(x) returns the value of x when x is a member of E and
\* fails with TypeConstraintViolation otherwise; from_json(to_json(m)) = m for
\* every member m of E.
C19_EnumEncoder ==
    /\ (IsEnumCall("from_json") /\ value_arg.t # "enum") =>
           IF \E m \in EnumMembers(encoder_arg.enum_class) : WireEquals(m, value_arg)
           THEN /\ result.kind = "ok" /\ result.value.t = "enum"
                /\ result.value.enum_class = encoder_arg.enum_class
                /\ WireEquals(result.value.v, value_arg)
           ELSE result = PropertyConstraintViolationError(NoField)
    /\ IsEnumCall("to_json") =>
           IF value_arg.t = "enum" /\ value_arg.enum_class = encoder_arg.enum_class
           THEN result = Ok(value_arg.v)
           ELSE result = TypeConstraintViolationError(NoField)
    /\ (IsEnumCall("from_json_of_to_json") /\ value_arg.t = "enum") => result = Ok(value_arg)

\* Witness of C19: a member encoded and decoded again.
C19_Witness ==
    /\ IsEnumCall("from_json_of_to_json")
    /\ value_arg = EnumMember("AvailabilityTypeEnum", JStr("Operative"))
    /\ result = Ok(value_arg)

IsDecimalCall(step) == pc = step /\ encoder_arg = OutgoingMessageDecimalEncoder

\* The value is a number or a numeric string that six places can hold.
IsNumeric(v) ==
    \/ v.t \in {"int", "bool"}
    \/ v.t = "float" /\ "nano" \in DOMAIN v
    \/ v.t = "str" /\ v.s \in DOMAIN NumericStrings /\ "nano" \in DOMAIN NumericStrings[v.s]

\* The decimal value a number or numeric string denotes, in units of 10^-9.
DecimalNano(v) ==
    CASE v.t = "int" -> v.i * 1000000000
      [] v.t = "bool" -> IF v.b THEN 1000000000 ELSE 0
      [] v.t = "float" -> v.nano
      [] OTHER -> NumericStrings[v.s].nano

\* C20: OutgoingMessageDecimalEncoder.from_json returns its input unchanged;
\* to_json returns a numeric value or numeric string truncated toward zero to
\* six fractional digits (a value with at most six fractional digits being
\* returned unchanged) and fails with TypeConstraintViolation for an input
\* that is not numeric.
C20_DecimalEncoderTruncates ==
    /\ IsDecimalCall("from_json") => result = Ok(value_arg)
    /\ (IsDecimalCall("to_json") /\ IsNumeric(value_arg)) =>
           result = Ok(PyFloat(TruncDiv(DecimalNano(value_arg), 1000) * 1000))
    /\ (IsDecimalCall("to_json") /\ ~IsNumeric(value_arg) /\ value_arg # HugeFloat
            /\ ~(value_arg.t = "str" /\ value_arg.s \in DOMAIN NumericStrings)) =>
           result = TypeConstraintViolationError(NoField)

(***************************************************************************)
(* Properties of the fields of parse_data.                                 *)
(***************************************************************************)
\* The primitive JSON kind of a wire value.
WireKind(v) == IF v.t \in {"str", "int", "float", "bool"} THEN v.t ELSE "other"

\* The primitive kind a Struct-free, List-free type declares.
DeclaredKind(type) ==
    IF type.k = "prim" THEN type.py
    ELSE IF type.k = "simple" THEN fields(type.cls)[1].type.py
    ELSE "other"

IsScalarType(type) == DeclaredKind(type) \in {"str", "int", "float", "bool"}

\* A wire value of a primitive kind other than the declared one.
MismatchesKind(type, v) ==
    IsScalarType(type) /\ WireKind(v) # "other" /\ WireKind(v) # DeclaredKind(type)

\* The object passes the two guards of parse_data.
PassesGuards(cls, wire) ==
    /\ wire.t = "dict"
    /\ Cardinality(DOMAIN wire.d) <= Len(fields(cls))
    /\ ~LacksRequiredField(cls, wire)

\* The field is optional and the object gives it no value, or gives it the
\* valid sample of its type.
AbsentOrValid(field, wire) ==
    IF field.name \in DOMAIN wire.d
    THEN \/ wire.d[field.name] = ValidWireValue(field.type)
         \/ field.default = None /\ wire.d[field.name] = JNull
    ELSE field.default = None

\* Every field declared before the i-th is absent or valid.
ValidBefore(cls, wire, i) ==
    \A j \in 1..(i - 1) : AbsentOrValid(fields(cls)[j], wire)

\* The i-th field is a list of scalars whose k-th element is the first of the
\* wrong kind.
FirstMismatchingElement(field, wire, k) ==
    /\ field.type.k = "list"
    /\ field.name \in DOMAIN wire.d
    /\ wire.d[field.name].t = "list"
    /\ k \in DOMAIN wire.d[field.name].l
    /\ MismatchesKind(field.type.of, wire.d[field.name].l[k])
    /\ \A h \in 1..(k - 1) : wire.d[field.name].l[h] = ValidWireValue(field.type.of)

\* C21: a wire value whose JSON kind (string, integer, float, boolean) differs
\* from the kind its scalar field, or the scalar element type of its list
\* field, declares is rejected with TypeConstraintViolation carrying the
\* field's name.
C21_StrictTypeCheck ==
    (DoneParseData /\ PassesGuards(dataclass_class, data_arg)) =>
        \A i \in DOMAIN fields(dataclass_class) :
            (/\ ValidBefore(dataclass_class, data_arg, i)
             /\ \/ /\ fields(dataclass_class)[i].name \in DOMAIN data_arg.d
                   /\ MismatchesKind(fields(dataclass_class)[i].type,
                                     data_arg.d[fields(dataclass_class)[i].name])
                \/ \E k \in 1..TooManyElements :
                      FirstMismatchingElement(fields(dataclass_class)[i], data_arg, k))
            => result = TypeConstraintViolationError(fields(dataclass_class)[i].name)

\* The field a scalar type stands for: the `value` field of a SimpleType.
BaseMetadata(field) ==
    IF field.type.k = "simple" THEN fields(field.type.cls)[1].metadata ELSE field.metadata

\* The chain a field declares under 'validators': a list, or a single validator.
DeclaredChain(field) ==
    IF "validators" \notin DOMAIN BaseMetadata(field) THEN <<>>
    ELSE IF "list" \in DOMAIN BaseMetadata(field).validators
    THEN BaseMetadata(field).validators.list
    ELSE <<BaseMetadata(field).validators>>

RECURSIVE ChainOutcome(_, _, _)
\* The validators of a chain applied in order, from the i-th on: the first
\* failure, or the value.
ChainOutcome(chain, v, i) ==
    IF i > Len(chain) THEN Ok(v)
    ELSE IF CallValidator(chain[i], v, TRUE).kind # "ok" THEN CallValidator(chain[i], v, TRUE)
    ELSE ChainOutcome(chain, v, i + 1)

\* The object gives the scalar field a value of the declared kind.
HoldsDeclaredKind(field, wire) ==
    /\ field.name \in DOMAIN wire.d
    /\ IsScalarType(field.type)
    /\ WireKind(wire.d[field.name]) = DeclaredKind(field.type)

\* C22: the validators a field declares are applied to its value in declared
\* order: a value that some validator of the chain refuses makes parse_data
\* fail with PropertyConstraintViolation carrying the field's name, and a
\* value that passes them all is held unchanged by the returned record.
C22_ValidatorChainApplied ==
    (DoneParseData /\ PassesGuards(dataclass_class, data_arg)) =>
        \A i \in DOMAIN fields(dataclass_class) :
            (/\ ValidBefore(dataclass_class, data_arg, i)
             /\ HoldsDeclaredKind(fields(dataclass_class)[i], data_arg)
             /\ DeclaredChain(fields(dataclass_class)[i]) # <<>>)
            => IF ChainOutcome(DeclaredChain(fields(dataclass_class)[i]),
                               data_arg.d[fields(dataclass_class)[i].name], 1).kind = "ok"
               THEN result.kind = "ok" =>
                        result.value.attrs[fields(dataclass_class)[i].name]
                            = data_arg.d[fields(dataclass_class)[i].name]
               ELSE result = PropertyConstraintViolationError(fields(dataclass_class)[i].name)

\* The field declares an encoder.
DeclaresEncoder(field) == "encoder" \in DOMAIN BaseMetadata(field)

\* C23: a field that declares an encoder has its wire value converted by the
\* encoder's from_json during parse_data: the returned record holds the native
\* value (an enum member, a timestamp), and a wire value the encoder refuses
\* (a string that is no member of the field's enum) makes parse_data fail with
\* PropertyConstraintViolation carrying the field's name.
C23_EncoderApplied ==
    (DoneParseData /\ PassesGuards(dataclass_class, data_arg)) =>
        \A i \in DOMAIN fields(dataclass_class) :
            (/\ ValidBefore(dataclass_class, data_arg, i)
             /\ HoldsDeclaredKind(fields(dataclass_class)[i], data_arg)
             /\ DeclaresEncoder(fields(dataclass_class)[i]))
            => IF from_json(BaseMetadata(fields(dataclass_class)[i]).encoder,
                            data_arg.d[fields(dataclass_class)[i].name]).kind = "ok"
               THEN result.kind = "ok" =>
                        Ok(result.value.attrs[fields(dataclass_class)[i].name])
                            = from_json(BaseMetadata(fields(dataclass_class)[i]).encoder,
                                        data_arg.d[fields(dataclass_class)[i].name])
               ELSE result = PropertyConstraintViolationError(fields(dataclass_class)[i].name)

\* The object gives the List field a value parse_data does not skip.
HoldsListValue(field, wire) ==
    /\ field.type.k = "list"
    /\ field.name \in DOMAIN wire.d
    /\ wire.d[field.name] \notin {JNull, JList(<<>>)}

\* C24: for a List field, parse_data first rejects a wire value that is no
\* list with TypeConstraintViolation, then applies the validators declared
\* for the field to the whole list, and only then parses the elements: a list
\* longer than its declared maximum fails with PropertyConstraintViolation
\* carrying the field's name, whether or not its elements are valid.
C24_ListValidatedBeforeElements ==
    (DoneParseData /\ PassesGuards(dataclass_class, data_arg)) =>
        \A i \in DOMAIN fields(dataclass_class) :
            (/\ ValidBefore(dataclass_class, data_arg, i)
             /\ HoldsListValue(fields(dataclass_class)[i], data_arg))
            => IF data_arg.d[fields(dataclass_class)[i].name].t # "list"
               THEN result.kind = "err" /\ result.code = "TypeConstraintViolation"
               ELSE ChainOutcome(DeclaredChain(fields(dataclass_class)[i]),
                                 data_arg.d[fields(dataclass_class)[i].name], 1).kind # "ok"
                    => result = PropertyConstraintViolationError(fields(dataclass_class)[i].name)

\* The wire object without one of its keys.
WithoutKey(wire, key) == JDict([n \in DOMAIN wire.d \ {key} |-> wire.d[n]])

\* The object holds a key unknown to the schema next to valid values for all
\* the required fields (and for the optional fields it gives), and no more
\* keys than the schema has fields.
HoldsUnknownKeyWithinCount(cls, wire) ==
    /\ wire.t = "dict"
    /\ ExtraKey \in DOMAIN wire.d
    /\ Cardinality(DOMAIN wire.d) <= Len(fields(cls))
    /\ ValidBefore(cls, wire, Len(fields(cls)) + 1)

\* C25: a wire object holding all required fields with valid values and a key
\* unknown to the schema, its number of keys not exceeding the number of
\* schema fields, is accepted by parse_data, and the record returned is the
\* one returned for the same object without the unknown key.
C25_UnknownKeysWithinCountIgnored ==
    (DoneParseData /\ HoldsUnknownKeyWithinCount(dataclass_class, data_arg)) =>
        /\ result.kind = "ok"
        /\ result = parse_data(dataclass_class, WithoutKey(data_arg, ExtraKey))

\* Witness of C25: a component named on the wire next to an unknown key.
C25_Witness ==
    /\ DoneParseData
    /\ dataclass_class = "v20.ComponentType"
    /\ data_arg = JDict(("name" :> JStr("Connector")) @@ (ExtraKey :> JStr("argument")))
    /\ result.kind = "ok"
    /\ result.value.attrs["name"] = JStr("Connector")

\* The wire gives the field no defined value: null, or the empty list for a
\* List field.
IsUndefinedOnWire(field, v) == v = JNull \/ (field.type.k = "list" /\ v = JList(<<>>))

\* C26: an optional field that is absent from the wire object, is null, or
\* (a List field) is the empty list is skipped by parse_data: the outcome is
\* that of parsing the object without the field, and the returned record
\* holds None for it; a falsy defined value (0, false, the empty string) of
\* an optional field that is no list is parsed and held by the record.
C26_OptionalUndefinedSkipped ==
    (/\ DoneParseData
     /\ data_arg.t = "dict"
     /\ Cardinality(DOMAIN data_arg.d) <= Len(fields(dataclass_class))) =>
        \A i \in DOMAIN fields(dataclass_class) :
            fields(dataclass_class)[i].default = None =>
                IF fields(dataclass_class)[i].name \notin DOMAIN data_arg.d
                THEN result.kind = "ok" =>
                         result.value.attrs[fields(dataclass_class)[i].name] = JNull
                ELSE /\ IsUndefinedOnWire(fields(dataclass_class)[i],
                                          data_arg.d[fields(dataclass_class)[i].name])
                        => /\ result = parse_data(dataclass_class,
                                          WithoutKey(data_arg, fields(dataclass_class)[i].name))
                           /\ result.kind = "ok" =>
                                 result.value.attrs[fields(dataclass_class)[i].name] = JNull
                     /\ (/\ data_arg.d[fields(dataclass_class)[i].name]
                                \in DefinedFalsy(fields(dataclass_class)[i].type)
                         /\ result.kind = "ok")
                        => result.value.attrs[fields(dataclass_class)[i].name]
                               = data_arg.d[fields(dataclass_class)[i].name]

\* Witness of C26: the empty list given for the optional evseId of Authorize.
C26_Witness ==
    /\ DoneParseData
    /\ dataclass_class = "v20.Authorize.Request"
    /\ DOMAIN data_arg.d = {"idToken", "evseId"}
    /\ data_arg.d["evseId"] = JList(<<>>)
    /\ result.kind = "ok"
    /\ result.value.attrs["evseId"] = JNull

\* Witness of C26: zero given for the optional connectorId of an EVSE.
C26_FalsyWitness ==
    /\ DoneParseData
    /\ dataclass_class = "v20.EVSEType"
    /\ data_arg = JDict(("id" :> JInt(1)) @@ ("connectorId" :> JInt(0)))
    /\ result.kind = "ok"
    /\ result.value.attrs["connectorId"] = JInt(0)

(***************************************************************************)
(* Properties of the fields of serialize_fields.                           *)
(***************************************************************************)
DoneSerializeFields == pc = "serialize_fields"

\* The native value gives the field nothing: None, or the empty list for a
\* List field.
IsUndefinedNative(field, v) == v = JNull \/ (field.type.k = "list" /\ v = JList(<<>>))

\* The names of the declared fields whose native value is defined.
DefinedNames(message) ==
    {fields(message.cls)[i].name :
        i \in {j \in DOMAIN fields(message.cls) :
                 ~IsUndefinedNative(fields(message.cls)[j],
                                    message.attrs[fields(message.cls)[j].name])}}

\* Every field declared before the i-th is optional and undefined, or holds a
\* value that is serialized without error.
SerializableBefore(message, i) ==
    \A j \in 1..(i - 1) :
        IF IsUndefinedNative(fields(message.cls)[j], message.attrs[fields(message.cls)[j].name])
        THEN fields(message.cls)[j].default = None
        ELSE SerializeFieldValue(fields(message.cls)[j],
                                 message.attrs[fields(message.cls)[j].name]).kind = "ok"

C27_RequiredWitness ==
    /\ DoneSerializeFields
    /\ message_arg = Record("v20.GetVariables.Request", [getVariableData |-> JList(<<>>)])
    /\ result = ProtocolError

\* The record gives the scalar field a defined native value.
HoldsNativeValue(field, message) ==
    IsScalarType(field.type) /\ message.attrs[field.name] # JNull

\* C28: serialize_field checks the type after the encoder has transformed the
\* value: a native value whose own type differs from the wire type (a
\* timestamp for a string field, an enum member for a string or integer
\* field) is accepted and serialized to what its encoder's to_json returns
\* when that is of the declared wire type, and a transformed result that is
\* not of the wire type fails with TypeConstraintViolation carrying the
\* field's name.
C28_TypeCheckedAfterEncoding ==
    DoneSerializeFields =>
        \A i \in DOMAIN fields(message_arg.cls) :
            (/\ SerializableBefore(message_arg, i)
             /\ HoldsNativeValue(fields(message_arg.cls)[i], message_arg)
             /\ DeclaresEncoder(fields(message_arg.cls)[i])
             /\ to_json(BaseMetadata(fields(message_arg.cls)[i]).encoder,
                        message_arg.attrs[fields(message_arg.cls)[i].name]).kind = "ok")
            => IF IsInstance(
                      to_json(BaseMetadata(fields(message_arg.cls)[i]).encoder,
                              message_arg.attrs[fields(message_arg.cls)[i].name]).value,
                      DeclaredKind(fields(message_arg.cls)[i].type))
               THEN /\ result # TypeConstraintViolationError(fields(message_arg.cls)[i].name)
                    /\ result.kind = "ok" =>
                          Ok(result.value.d[fields(message_arg.cls)[i].name])
                              = to_json(BaseMetadata(fields(message_arg.cls)[i]).encoder,
                                        message_arg.attrs[fields(message_arg.cls)[i].name])
               ELSE result = TypeConstraintViolationError(fields(message_arg.cls)[i].name)

(***************************************************************************)
(* Order of the errors of parse_data.                                      *)
(***************************************************************************)
\* The object passes the two guards at the head of parse_data.
PassesBothGuards(cls, wire) ==
    /\ wire.t = "dict"
    /\ ~TooManyArguments(fields(cls), wire)
    /\ ~MissingOrUndefined(required_fields(cls), wire)

\* The object holding the valid sample of every required field.
RequiredOnly(cls) == ValidWireValue(Complex(cls))

\* The object holding the valid sample of every required field, but for the
\* i-th field the value the wire object gives it.
Isolated(cls, wire, i) ==
    JDict([n \in RequiredNames(cls) \cup {fields(cls)[i].name} |->
             IF n = fields(cls)[i].name THEN wire.d[n] ELSE RequiredOnly(cls).d[n]])

\* The value the wire object gives the i-th field makes parse_data fail in an
\* otherwise valid object.
FailsAlone(cls, wire, i) ==
    /\ fields(cls)[i].name \in DOMAIN wire.d
    /\ parse_data(cls, Isolated(cls, wire, i)).kind # "ok"
    /\ parse_data(cls, Isolated(cls, wire, i)) # parse_data(cls, RequiredOnly(cls))

\* C30: when a wire object passes both guards of parse_data and some of its
\* fields are invalid, the error raised is that of the first invalid field in
\* declaration order, an error inside a nested object or list element being
\* raised at the position of its parent field, whatever the fields declared
\* after it hold; no record is returned.
C30_FirstInvalidFieldWins ==
    (DoneParseData /\ PassesBothGuards(dataclass_class, data_arg)) =>
        \A i \in DOMAIN fields(dataclass_class) :
            (/\ FailsAlone(dataclass_class, data_arg, i)
             /\ \A j \in 1..(i - 1) : ~FailsAlone(dataclass_class, data_arg, j))
            => /\ result.kind # "ok"
               /\ result = parse_data(dataclass_class, Isolated(dataclass_class, data_arg, i))

\* Witness of C30: two fields of the wrong type, the first one reported.
C30_Witness ==
    /\ DoneParseData
    /\ dataclass_class = "v16.ChargingSchedulePeriod"
    /\ data_arg = JDict([startPeriod |-> JStr("one"), limit |-> JStr("one")])
    /\ result = TypeConstraintViolationError("startPeriod")

\* Witness of C30: a nested object lacking a required field, before a field
\* of the wrong type.
C30_NestedWitness ==
    /\ DoneParseData
    /\ dataclass_class = "v20.IdTokenType"
    /\ DOMAIN data_arg.d = {"idToken", "type_", "additionalInfo"}
    /\ data_arg.d["idToken"] = JStr("Connector")
    /\ data_arg.d["type_"] = JStr("Central")
    /\ data_arg.d["additionalInfo"]
           = JList(<<InvalidWireValue(Complex("v20.AdditionalInfoType")),
                     ValidWireValue(Complex("v20.AdditionalInfoType"))>>)
    /\ result = ProtocolError

(***************************************************************************)
(* Calls of parse, parse_data, serialize and serialize_fields made by the   *)
(* threads of one process.  The calls share the field descriptors of the   *)
(* classes and the action registries; each call owns its arguments.  A     *)
(* call of parse takes two steps, the structural parse and the payload,    *)
(* and the steps of the threads interleave.                                *)
(***************************************************************************)
MaxThreads == 2

Threads == 1..MaxThreads

\* Variant: the assignment lands on the descriptor held by the class.
DescriptorsAfterUnpackField_in_place(descriptors, cls, i) ==
    [descriptors EXCEPT ![cls][i].type = @.of]

\* The descriptors once _unpack_field has run on the i-th field of cls:
\* new_field is a copy, the assignment to new_field.type lands on the copy.
DescriptorsAfterUnpackField(descriptors, cls, i) == descriptors

\* Variant: the assignment lands on the descriptor held by the SimpleType.
DescriptorsAfterExtractBaseType_in_place(descriptors, cls, i) ==
    [descriptors EXCEPT ![descriptors[cls][i].type.cls][1].name = descriptors[cls][i].name]

\* The descriptors once _extract_base_type has run on the i-th field of cls:
\* new_field is a copy of the field of the SimpleType, the assignment to
\* new_field.name lands on the copy.
DescriptorsAfterExtractBaseType(descriptors, cls, i) == descriptors

\* The index of the payload in a raw list of the envelope class.
PayloadPosition(msgtype_dataclass) ==
    CHOOSE i \in DOMAIN fields(msgtype_dataclass) : fields(msgtype_dataclass)[i].name = "payload"

\* Variant: the empty object is written into the list the caller passed.
RawDataAfterNormalize_in_place(raw, msgtype_dataclass) ==
    IF /\ \E i \in DOMAIN fields(msgtype_dataclass) : fields(msgtype_dataclass)[i].name = "payload"
       /\ PayloadPosition(msgtype_dataclass) <= Len(raw.l)
       /\ raw.l[PayloadPosition(msgtype_dataclass)].t = "NoneType"
    THEN JList([raw.l EXCEPT ![PayloadPosition(msgtype_dataclass)] = EmptyDict])
    ELSE raw

\* The caller's list once parse has normalised the payload: ocpp_dict is a
\* dictionary parse builds, the empty object is written into it.
RawDataAfterNormalize(raw, msgtype_dataclass) == raw

RECURSIVE DescriptorsAfterParseData(_, _, _)
RECURSIVE DescriptorsAfterParseFields(_, _, _, _)
RECURSIVE DescriptorsAfterParseElements(_, _, _, _)

\* The descriptors once the elements of a list, from the k-th on, are parsed
\* as objects of cls, up to the first element that fails.
DescriptorsAfterParseElements(descriptors, cls, elements, k) ==
    IF k > Len(elements) THEN descriptors
    ELSE IF parse_data(cls, elements[k]).kind # "ok"
    THEN DescriptorsAfterParseData(descriptors, cls, elements[k])
    ELSE DescriptorsAfterParseElements(
             DescriptorsAfterParseData(descriptors, cls, elements[k]), cls, elements, k + 1)

\* The descriptors once the loop body of parse_data has run on the i-th
\* field of cls: the base field of a SimpleType is extracted, a nested
\* object is parsed, a list field is unpacked once its value is a list.
DescriptorsAfterParseField(descriptors, cls, i, type_, data_item) ==
    IF _is_list(type_)
    THEN IF data_item.t # "list" THEN descriptors
         ELSE IF is_dataclass(type_.of)
         THEN DescriptorsAfterParseElements(DescriptorsAfterUnpackField(descriptors, cls, i),
                                            type_.of.cls, data_item.l, 1)
         ELSE DescriptorsAfterUnpackField(descriptors, cls, i)
    ELSE IF IsSimpleType(type_) THEN DescriptorsAfterExtractBaseType(descriptors, cls, i)
    ELSE IF is_dataclass(type_) THEN DescriptorsAfterParseData(descriptors, type_.cls, data_item)
    ELSE descriptors

\* The descriptors once the loop of parse_data has run from the i-th field
\* on, up to the first field that fails.
DescriptorsAfterParseFields(descriptors, cls, data, i) ==
    IF i > Len(fields(cls)) THEN descriptors
    ELSE IF IsSkipped(fields(cls)[i], data)
    THEN DescriptorsAfterParseFields(descriptors, cls, data, i + 1)
    ELSE IF ParseFieldValue(EffectiveField(fields(cls)[i]), data.d[fields(cls)[i].name]).kind # "ok"
    THEN DescriptorsAfterParseField(descriptors, cls, i, fields(cls)[i].type,
                                    data.d[fields(cls)[i].name])
    ELSE DescriptorsAfterParseFields(
             DescriptorsAfterParseField(descriptors, cls, i, fields(cls)[i].type,
                                        data.d[fields(cls)[i].name]),
             cls, data, i + 1)

\* The descriptors once parse_data(cls, data) has run: the loop is entered
\* when data passes both guards.
DescriptorsAfterParseData(descriptors, cls, data) ==
    IF ~HasLen(data) \/ ~PassesBothGuards(cls, data) THEN descriptors
    ELSE DescriptorsAfterParseFields(descriptors, cls, data, 1)

RECURSIVE DescriptorsAfterSerializeFields(_, _)
RECURSIVE DescriptorsAfterSerializeFrom(_, _, _)
RECURSIVE DescriptorsAfterSerializeElements(_, _, _)

\* The descriptors once the elements of a list of records, from the k-th on,
\* are serialized, up to the first element that fails.
DescriptorsAfterSerializeElements(descriptors, elements, k) ==
    IF k > Len(elements) THEN descriptors
    ELSE IF serialize_fields(elements[k]).kind # "ok"
    THEN DescriptorsAfterSerializeFields(descriptors, elements[k])
    ELSE DescriptorsAfterSerializeElements(
             DescriptorsAfterSerializeFields(descriptors, elements[k]), elements, k + 1)

\* The descriptors once the loop body of serialize_fields has run on the
\* i-th field of cls: a list field is unpacked, a nested record serialized,
\* the base field of a SimpleType extracted by serialize_field.
DescriptorsAfterSerializeField(descriptors, cls, i, type_, field_value) ==
    IF _is_list(type_)
    THEN IF field_value.t = "list" /\ type_.of.k = "complex"
         THEN DescriptorsAfterSerializeElements(DescriptorsAfterUnpackField(descriptors, cls, i),
                                                field_value.l, 1)
         ELSE DescriptorsAfterUnpackField(descriptors, cls, i)
    ELSE IF type_.k = "complex" THEN DescriptorsAfterSerializeFields(descriptors, field_value)
    ELSE IF IsSimpleType(type_) THEN DescriptorsAfterExtractBaseType(descriptors, cls, i)
    ELSE descriptors

\* The descriptors once the loop of serialize_fields has run from the i-th
\* field on, up to the first field that fails.
DescriptorsAfterSerializeFrom(descriptors, message, i) ==
    IF i > Len(fields(message.cls)) THEN descriptors
    ELSE IF _is_undefined(fields(message.cls)[i], GetAttr(message, fields(message.cls)[i].name))
    THEN IF _is_optional(fields(message.cls)[i])
         THEN DescriptorsAfterSerializeFrom(descriptors, message, i + 1)
         ELSE descriptors
    ELSE IF SerializeFieldValue(fields(message.cls)[i],
                                GetAttr(message, fields(message.cls)[i].name)).kind # "ok"
    THEN DescriptorsAfterSerializeField(descriptors, message.cls, i, fields(message.cls)[i].type,
                                        GetAttr(message, fields(message.cls)[i].name))
    ELSE DescriptorsAfterSerializeFrom(
             DescriptorsAfterSerializeField(descriptors, message.cls, i,
                                            fields(message.cls)[i].type,
                                            GetAttr(message, fields(message.cls)[i].name)),
             message, i + 1)

\* The descriptors once serialize_fields(message) has run.
DescriptorsAfterSerializeFields(descriptors, message) ==
    IF message.t # "dataclass" THEN descriptors
    ELSE DescriptorsAfterSerializeFrom(descriptors, message, 1)

RECURSIVE DescriptorsAfterEnvelopeFrom(_, _, _)
\* The descriptors once the comprehension of serialize has run from the i-th
\* field of the envelope on, up to the first field that fails.
DescriptorsAfterEnvelopeFrom(descriptors, message, i) ==
    IF i > Len(fields(message.cls)) THEN descriptors
    ELSE IF fields(message.cls)[i].name = "payload"
    THEN DescriptorsAfterEnvelopeFrom(descriptors, message, i + 1)
    ELSE IF _is_generic(fields(message.cls)[i].type) THEN descriptors
    ELSE IF serialize_field(fields(message.cls)[i],
                            GetAttr(message, fields(message.cls)[i].name)).kind # "ok"
    THEN DescriptorsAfterSerializeField(descriptors, message.cls, i, fields(message.cls)[i].type,
                                        GetAttr(message, fields(message.cls)[i].name))
    ELSE DescriptorsAfterEnvelopeFrom(
             DescriptorsAfterSerializeField(descriptors, message.cls, i,
                                            fields(message.cls)[i].type,
                                            GetAttr(message, fields(message.cls)[i].name)),
             message, i + 1)

\* The descriptors once serialize(message) has run: the envelope, then the
\* payload when the envelope was serialized and the message has one.
DescriptorsAfterSerialize(descriptors, message) ==
    IF message.t # "dataclass" THEN descriptors
    ELSE IF SerializeEnvelopeFrom(message, 1, <<>>).kind # "ok"
            \/ "payload" \notin DOMAIN message.attrs
    THEN DescriptorsAfterEnvelopeFrom(descriptors, message, 1)
    ELSE DescriptorsAfterSerializeFields(DescriptorsAfterEnvelopeFrom(descriptors, message, 1),
                                         message.attrs["payload"])

\* parse reaches the structural parse: raw_data is a non-empty list whose
\* first element is a known message type id.
EntersStructuralParse(raw) ==
    /\ raw.t = "list" /\ ~Falsy(raw)
    /\ IsHashable(raw.l[1]) /\ InMsgTypeTable(raw.l[1])

\* The class of the envelope of a raw list that enters the structural parse.
MsgTypeDataclass(raw) == _MSGTYPEID_TO_DATACLASS[NumericValue(raw.l[1])]

\* The name of the action whose payload parse resolves for an envelope record.
PayloadActionName(ocpp_msg, name) ==
    IF ClassMessageTypeId[ocpp_msg.cls] = 2 THEN ocpp_msg.attrs["action"] ELSE name

\* parse goes on to parse the payload of the envelope record.
ParsesPayload(ocpp_msg, name, p) ==
    /\ ocpp_msg.kind = "ok"
    /\ ClassMessageTypeId[ocpp_msg.value.cls] \in {2, 3}
    /\ ~(ClassMessageTypeId[ocpp_msg.value.cls] = 3 /\ Falsy(name))
    /\ PayloadActionName(ocpp_msg.value, name).s \in DOMAIN get_implemented_messages(p)

\* The descriptors once the second half of parse has run.
DescriptorsAfterPayload(descriptors, ocpp_msg, name, p) ==
    IF ~ParsesPayload(ocpp_msg, name, p) THEN descriptors
    ELSE DescriptorsAfterParseData(
             descriptors,
             PayloadDataclass(
                 get_implemented_messages(p)[PayloadActionName(ocpp_msg.value, name).s],
                 ClassMessageTypeId[ocpp_msg.value.cls] = 2),
             ocpp_msg.value.attrs["payload"])

\* The calls of parse the threads make: raw_data, call_result_action_name, protocol.
ParseCalls ==
    {[raw_data |-> JList(<<JInt(2), JStr("19223201"), JStr("GetVariables"),
                           ValidWireValue(Complex("v20.GetVariables.Request"))>>),
      name |-> JNull, protocol |-> "v20"],
     [raw_data |-> JList(<<JInt(2), JStr("19223201"), JStr("Heartbeat"), JNull>>),
      name |-> JNull, protocol |-> "v16"],
     [raw_data |-> JList(<<JInt(3), JStr("19223201"), JDict([listVersion |-> JInt(1)])>>),
      name |-> JStr("GetLocalListVersion"), protocol |-> "v16"],
     [raw_data |-> JList(<<JInt(4), JStr("19223201"), JStr("GenericError"),
                           JStr("Something went wrong"), DontCare>>),
      name |-> JNull, protocol |-> "v20"],
     [raw_data |-> JStr("[2]"), name |-> JNull, protocol |-> "v20"]}

\* The calls of parse_data the threads make: dataclass_class, data.
ParseDataCalls ==
    {[dataclass_class |-> "v20.GetVariables.Request",
      data |-> ValidWireValue(Complex("v20.GetVariables.Request"))],
     [dataclass_class |-> "v20.Authorize.Request",
      data |-> JDict([idToken |-> ValidWireValue(Complex("v20.IdTokenType")),
                      evseId |-> JList(<<JInt(1)>>)])]}

\* The messages and payload records the threads serialize.
SerializeCalls ==
    {Record("structure.Call",
            [uniqueId |-> JStr("19223201"), action |-> JStr("Heartbeat"),
             payload |-> Record("v16.Heartbeat.req", <<>>)])}

SerializeFieldsCalls ==
    {ValidNativeValue(Complex("v20.GetVariables.Request")),
     Record("v16.GetLocalListVersion.conf", [listVersion |-> JInt(1)])}

Idle == [op |-> "idle"]

\* A call in progress: the argument the caller holds (arg), its value when
\* the call was made (given), the step the call is at, the envelope record
\* of the structural parse, the result, and whether another thread has taken
\* a step since the call was made.
Call(op, arg, cls, name, p) ==
    [op |-> op, arg |-> arg, given |-> arg, dataclass_class |-> cls, name |-> name,
     protocol |-> p, at |-> "start", ocpp_msg |-> NoResult, result |-> NoResult,
     interleaved |-> FALSE]

InProgress(call) == call.op # "idle" /\ call.at # "done"

\* Thread t moves its call to `call` while the calls of the other threads
\* that are in progress see a step of another thread.
Step(t, call) ==
    [u \in Threads |->
        IF u = t THEN call
        ELSE IF InProgress(calls[u]) THEN [calls[u] EXCEPT !.interleaved = TRUE]
        ELSE calls[u]]

InitThreads ==
    /\ InitShared
    /\ calls = [t \in Threads |-> Idle]
    /\ raw_data = Unused /\ call_result_action_name = Unused /\ protocol = Unused
    /\ pc = "threads" /\ result = NoResult
    /\ dataclass_class = Unused /\ data_arg = Unused /\ message_arg = Unused
    /\ encoder_arg = Unused /\ value_arg = Unused

UnchangedSingleCall ==
    UNCHANGED <<raw_data, call_result_action_name, protocol, pc, result,
                dataclass_class, data_arg, message_arg, encoder_arg, value_arg>>

\* A thread calls parse, parse_data, serialize or serialize_fields.
CallAny ==
    /\ \E t \in Threads :
          /\ calls[t] = Idle
          /\ \/ \E c \in ParseCalls :
                   calls' = Step(t, Call("parse", c.raw_data, Unused, c.name, c.protocol))
             \/ \E c \in ParseDataCalls :
                   calls' = Step(t, Call("parse_data", c.data, c.dataclass_class, Unused, Unused))
             \/ \E m \in SerializeCalls :
                   calls' = Step(t, Call("serialize", m, Unused, Unused, Unused))
             \/ \E m \in SerializeFieldsCalls :
                   calls' = Step(t, Call("serialize_fields", m, Unused, Unused, Unused))
    /\ UNCHANGED shared
    /\ UnchangedSingleCall

\* parse leaves before the structural parse: raw_data is no non-empty list
\* or its first element is no known message type id.
ParseEntryError ==
    /\ \E t \in Threads :
          /\ calls[t].op = "parse" /\ calls[t].at = "start"
          /\ ~EntersStructuralParse(calls[t].arg)
          /\ calls' = Step(t, [calls[t] EXCEPT
                                  !.at = "done",
                                  !.result = parse(calls[t].arg, calls[t].name,
                                                   calls[t].protocol)])
    /\ UNCHANGED shared
    /\ UnchangedSingleCall

\* The first half of parse: the dictionary of the envelope is built and
\* normalised, and parsed against the class of the envelope.
ParseStructure ==
    /\ \E t \in Threads :
          /\ calls[t].op = "parse" /\ calls[t].at = "start"
          /\ EntersStructuralParse(calls[t].arg)
          /\ calls' = Step(t, [calls[t] EXCEPT
                                  !.at = "payload",
                                  !.arg = RawDataAfterNormalize(calls[t].arg,
                                                                MsgTypeDataclass(calls[t].arg)),
                                  !.ocpp_msg = StructuralParse(calls[t].arg.l)])
          /\ __dataclass_fields__' =
                 DescriptorsAfterParseData(
                     __dataclass_fields__, MsgTypeDataclass(calls[t].arg),
                     EnvelopeDict(MsgTypeDataclass(calls[t].arg), calls[t].arg.l))
    /\ UNCHANGED IMPLEMENTED
    /\ UnchangedSingleCall

\* The second half of parse: the action is looked up in the registry of the
\* protocol and the payload parsed against its dataclass.
ParsePayloadOfAction ==
    /\ \E t \in Threads :
          /\ calls[t].op = "parse" /\ calls[t].at = "payload"
          /\ calls' = Step(t, [calls[t] EXCEPT
                                  !.at = "done",
                                  !.result = AfterStructuralParse(calls[t].ocpp_msg,
                                                                  calls[t].arg.l,
                                                                  calls[t].name,
                                                                  calls[t].protocol)])
          /\ __dataclass_fields__' =
                 DescriptorsAfterPayload(__dataclass_fields__, calls[t].ocpp_msg,
                                         calls[t].name, calls[t].protocol)
    /\ UNCHANGED IMPLEMENTED
    /\ UnchangedSingleCall

\* One call of parse_data.
ParseDataOfClass ==
    /\ \E t \in Threads :
          /\ calls[t].op = "parse_data" /\ calls[t].at = "start"
          /\ calls' = Step(t, [calls[t] EXCEPT
                                  !.at = "done",
                                  !.result = parse_data(calls[t].dataclass_class, calls[t].arg)])
          /\ __dataclass_fields__' =
                 DescriptorsAfterParseData(__dataclass_fields__, calls[t].dataclass_class,
                                           calls[t].arg)
    /\ UNCHANGED IMPLEMENTED
    /\ UnchangedSingleCall

\* One call of serialize.
SerializeMessage ==
    /\ \E t \in Threads :
          /\ calls[t].op = "serialize" /\ calls[t].at = "start"
          /\ calls' = Step(t, [calls[t] EXCEPT !.at = "done",
                                               !.result = serialize(calls[t].arg)])
          /\ __dataclass_fields__' = DescriptorsAfterSerialize(__dataclass_fields__, calls[t].arg)
    /\ UNCHANGED IMPLEMENTED
    /\ UnchangedSingleCall

\* One call of serialize_fields.
SerializePayloadRecord ==
    /\ \E t \in Threads :
          /\ calls[t].op = "serialize_fields" /\ calls[t].at = "start"
          /\ calls' = Step(t, [calls[t] EXCEPT !.at = "done",
                                               !.result = serialize_fields(calls[t].arg)])
          /\ __dataclass_fields__' =
                 DescriptorsAfterSerializeFields(__dataclass_fields__, calls[t].arg)
    /\ UNCHANGED IMPLEMENTED
    /\ UnchangedSingleCall

\* The caller takes the result; the thread is free for its next call.
Return ==
    /\ \E t \in Threads :
          /\ calls[t].op # "idle" /\ calls[t].at = "done"
          /\ calls' = Step(t, Idle)
    /\ UNCHANGED shared
    /\ UnchangedSingleCall

NextThreads ==
    \/ CallAny
    \/ ParseEntryError
    \/ ParseStructure
    \/ ParsePayloadOfAction
    \/ ParseDataOfClass
    \/ SerializeMessage
    \/ SerializePayloadRecord
    \/ Return

SpecThreads == InitThreads /\ [][NextThreads]_vars

(***************************************************************************)
(* Properties of the shared state.                                         *)
(***************************************************************************)
\* The outcome of the call when it runs alone in a freshly imported process.
OutcomeAlone(call) ==
    CASE call.op = "parse" -> parse(call.given, call.name, call.protocol)
      [] call.op = "parse_data" -> parse_data(call.dataclass_class, call.given)
      [] call.op = "serialize" -> serialize(call.given)
      [] OTHER -> serialize_fields(call.given)

\* C29: parse and serialize never mutate shared state.  After any sequence
\* and any interleaving of the steps of concurrent calls of parse and
\* serialize and of the functions they hand the payload to, the action
\* registries and the field descriptors are those created at import, the
\* argument of every call is the value its caller passed, and the result of
\* every finished call is its outcome when run alone.
C29_SharedStateUnchanged ==
    calls # Unused =>
        /\ __dataclass_fields__ = DeclaredFields
        /\ IMPLEMENTED = ImplementedAtImport
        /\ \A t \in Threads :
              calls[t].op # "idle" =>
                 /\ calls[t].arg = calls[t].given
                 /\ calls[t].at = "done" => calls[t].result = OutcomeAlone(calls[t])

\* A call of parse_data has returned the record of a payload with a list
\* field while another thread is half way through the parse of a Call whose
\* payload is null, a step of another thread having come between its steps.
C29_Witness ==
    /\ calls # Unused
    /\ \E t \in Threads, u \in Threads :
          /\ t # u
          /\ calls[t].op = "parse_data" /\ calls[t].at = "done"
          /\ calls[t].result.kind = "ok"
          /\ calls[t].result.value.cls = "v20.GetVariables.Request"
          /\ calls[u].op = "parse" /\ calls[u].at = "payload" /\ calls[u].interleaved
          /\ Len(calls[u].given.l) = 4 /\ calls[u].given.l[4] = JNull
====
